---- MODULE Spec2Model ----
(***************************************************************************)
(* Model of the resumable chunked writer of wzshiming/sss (sss_writer.go)  *)
(* together with the multipart reconciliation it resumes from              *)
(* (sss_multipart.go) and the object store both talk to.                   *)
(*                                                                         *)
(* Bytes are modelled by their position in the caller's input stream       *)
(* (byte i of the stream is the number i), strings by sequences of         *)
(* one-character strings, an ETag by the body it is the digest of.         *)
(***************************************************************************)
EXTENDS Integers, Sequences, FiniteSets, TLC

\* ---------------------------------------------------------------- bounds
MaxData == 5
MaxWrite == 3
MaxWriters == 2

MaxChunk == 2
\* records in a part listing, part numbers, upload sessions in the store
MaxListing == 3
MaxPart == 3
MaxSessions == 2
\* characters in a path handed to directoryDiff
MaxPathLen == 5
\* keys in a listing page, skip signals a callback gives in one walk
MaxPage == 2
MaxSkips == 1
MaxInput == 4
MaxObject == 3
MaxRead == 2
\* the largest number of keys of one list or delete request (1000 in the
\* source), scaled down
listMax == 2

\* the chunk sizes the driver is configured with in the model
ChunkSizes == 1..MaxChunk

\* the root directories the driver is configured with in the model
Roots == {<< >>, <<"/", "r">>}

\* the path the caller uploads to
Path == <<"/", "k">>

VARIABLES
    rootDirectory,  \* SSS.rootDirectory
    driverChunkSize,\* SSS.chunkSize
    pool,           \* SSS.pool: number of buffers the pool holds
    sessions,       \* the store: upload sessions, indexed by upload id
    objects,        \* the store: committed objects, a set of [Key, Body]
    key,            \* writer.key
    uploadID,       \* writer.uploadID
    parts,          \* writer.parts
    size,           \* writer.size
    buf,            \* writer.buf (contents)
    chunkSize,      \* writer.chunkSize
    closed,         \* writer.closed
    committed,      \* writer.committed
    cancelled,      \* writer.cancelled
    pos,            \* the caller's offset in its input stream
    hist,           \* history: writers (writers created), resumed and k (this
                    \* writer came from WriterWithAppend with k trusted parts),
                    \* clean (no store call failed so far), puts, completes,
                    \* aborts (pool.Put, complete and abort calls of this writer)
    last,           \* the last call and what it returned (history)
    mp,             \* a Multipart handle and what its last call returned
    walk,           \* a Walk in progress and what it delivered
    ws,             \* several writers of one driver and its buffer pool
    del,            \* a DeleteAll in progress and the batches it sent
    loop,           \* a Write of a writer, one step per turn of its flush loop
    opt,            \* a writerOption built by WithSHA256 and its use in Commit
    rsc             \* a readSeekCloser over an object

vars == <<rootDirectory, driverChunkSize, pool, sessions, objects, key,
          uploadID, parts, size, buf, chunkSize, closed, committed,
          cancelled, pos, hist, last, mp, walk, ws, del,
          loop, opt, rsc>>

driverVars == <<rootDirectory, driverChunkSize>>
writerConst == <<key, uploadID, chunkSize>>
writerVars == <<pool, key, uploadID, parts, size, buf, chunkSize, closed,
                committed, cancelled, pos, hist, last>>
\* what the operations of a writer leave alone
others == <<mp, walk, ws, del, loop, opt, rsc>>

\* ------------------------------------------------------------- strings
Min(a, b) == IF a < b THEN a ELSE b

RECURSIVE TrimLeft(_, _)
TrimLeft(s, c) ==
    IF Len(s) > 0 /\ Head(s) = c THEN TrimLeft(Tail(s), c) ELSE s

RECURSIVE TrimRight(_, _)
TrimRight(s, c) ==
    IF Len(s) > 0 /\ s[Len(s)] = c
    THEN TrimRight(SubSeq(s, 1, Len(s) - 1), c)
    ELSE s

HasPrefix(s, p) == Len(p) <= Len(s) /\ SubSeq(s, 1, Len(p)) = p

s3Path(root, path) == TrimLeft(TrimRight(root, "/") \o path, "/")

\* --------------------------------------------------------------- sorting
RECURSIVE Insert(_, _)
Insert(sorted, p) ==
    IF sorted = << >> THEN <<p>>
    ELSE IF p.PartNumber < Head(sorted).PartNumber
         THEN <<p>> \o sorted
         ELSE <<Head(sorted)>> \o Insert(Tail(sorted), p)

RECURSIVE SortParts(_)
SortParts(ps) ==
    IF ps = << >> THEN << >>
    ELSE Insert(SortParts(SubSeq(ps, 1, Len(ps) - 1)), ps[Len(ps)])

\* ------------------------------------------------------------- the store
RECURSIVE ListOfSet(_)
ListOfSet(S) ==
    IF S = {} THEN << >>
    ELSE LET m == CHOOSE x \in S : \A y \in S : x.PartNumber <= y.PartNumber
         IN <<m>> \o ListOfSet(S \ {m})

\* ListParts: the stored parts of a session in ascending part number
S3ListParts(sess) ==
    ListOfSet({[PartNumber |-> p.PartNumber, Size |-> Len(p.Body),
                ETag |-> p.Body] : p \in sess.Parts})

\* UploadPart: a part number uploaded again replaces the stored part
S3UploadPart(sess, partNumber, body) ==
    [sess EXCEPT !.Parts = {p \in @ : p.PartNumber # partNumber}
                           \cup {[PartNumber |-> partNumber, Body |-> body]}]

S3Open(k, id) ==
    id \in DOMAIN sessions /\ sessions[id].Key = k /\ sessions[id].State = "open"

RECURSIVE Concat(_)
Concat(bodies) ==
    IF bodies = << >> THEN << >> ELSE Head(bodies) \o Concat(Tail(bodies))

\* CompleteMultipartUpload accepts a request naming stored parts by their etag
S3CanComplete(sess, req) ==
    /\ sess.State = "open"
    /\ Len(req) > 0
    /\ \A i \in 1..Len(req) :
          [PartNumber |-> req[i].PartNumber, Body |-> req[i].ETag] \in sess.Parts
    /\ \A i \in 1..(Len(req) - 1) : req[i].PartNumber < req[i + 1].PartNumber

S3Assemble(req) == Concat([i \in 1..Len(req) |-> req[i].ETag])

\* ------------------------------------------------- multipart reconciler
ignore == [PartNumber |-> -1, Size |-> -1, ETag |-> << >>]

RECURSIVE partMapOf(_, _)
partMapOf(listing, m) ==
    IF listing = << >> THEN m
    ELSE LET part == Head(listing)
             n == part.PartNumber
         IN partMapOf(Tail(listing),
                IF n \in DOMAIN m
                THEN IF m[n] = ignore THEN m
                     ELSE IF part.Size # m[n].Size \/ part.ETag # m[n].ETag
                          THEN [m EXCEPT ![n] = ignore]
                          ELSE m
                ELSE m @@ (n :> part))

\* Multipart.Resume: the listed parts without the conflicting part numbers,
\* in ascending part number
Resume(listing) ==
    LET partMap == partMapOf(listing, << >>)
    IN ListOfSet({partMap[n] : n \in DOMAIN partMap} \ {ignore})

\* Multipart.Resume of the aws-sdk-go v1 handle: the marker of a conflicting
\* part number stays in uniqueParts; sort.Sort dereferences its nil
\* PartNumber as soon as there is a second element to compare it with
ResumeV1(listing) ==
    LET partMap == partMapOf(listing, << >>)
        uniqueParts == {partMap[n] : n \in DOMAIN partMap}
    IN IF ignore \in uniqueParts /\ Cardinality(DOMAIN partMap) >= 2
       THEN [panic |-> TRUE, parts |-> << >>]
       ELSE [panic |-> FALSE, parts |-> ListOfSet(uniqueParts)]

\* the scan of OrderParts going on after a part that does not fit
RECURSIVE prefixScan_Continues(_, _, _, _)
prefixScan_Continues(mparts, i, cs, acc) ==
    IF i > Len(mparts) THEN acc
    ELSE IF mparts[i].PartNumber # i \/ mparts[i].Size # cs
         THEN prefixScan_Continues(mparts, i + 1, cs, acc)
         ELSE prefixScan_Continues(mparts, i + 1, cs, Append(acc, mparts[i]))

RECURSIVE prefixScan(_, _, _, _)
prefixScan(mparts, i, cs, acc) ==
    IF i > Len(mparts) THEN acc
    ELSE IF mparts[i].PartNumber # i THEN acc
    ELSE IF mparts[i].Size # cs THEN acc
    ELSE prefixScan(mparts, i + 1, cs, Append(acc, mparts[i]))

RECURSIVE SumSize(_)
SumSize(ps) == IF ps = << >> THEN 0 ELSE Head(ps).Size + SumSize(Tail(ps))

\* Multipart.OrderParts on the parts Resume left in the handle
OrderParts(mparts) ==
    IF Len(mparts) = 0 THEN [parts |-> << >>, size |-> 0]
    ELSE LET ps == prefixScan(mparts, 1, mparts[1].Size, << >>)
         IN [parts |-> ps, size |-> SumSize(ps)]

\* SSS.ListMultipart: the open sessions whose key starts with s3Path(path)
ListMultipart(path) ==
    {id \in DOMAIN sessions :
        /\ sessions[id].State = "open"
        /\ HasPrefix(sessions[id].Key, s3Path(rootDirectory, path))}

\* what Multipart.Resume lists for the handle (key, id): it asks the store
\* for the parts under s3Path(key); not ok when the store has no such upload
ResumeListing(k, id) ==
    IF S3Open(s3Path(rootDirectory, k), id)
    THEN [ok |-> TRUE, parts |-> S3ListParts(sessions[id])]
    ELSE [ok |-> FALSE, parts |-> << >>]

OrderedSize(k, id) ==
    IF ~ResumeListing(k, id).ok THEN 0
    ELSE OrderParts(Resume(ResumeListing(k, id).parts)).size

\* SSS.GetMultipart: the upload ids it may return, {} for "not found part"
GetMultipart(path) ==
    LET k == s3Path(rootDirectory, path)
        mps == {id \in ListMultipart(k) : sessions[id].Key = k}
    IN {id \in mps : \A o \in mps : OrderedSize(k, id) >= OrderedSize(k, o)}

\* ------------------------------------------------------------ the writer
\* newWriter without the accumulation of size over the resumed parts
newWriter_SizeNotSummed(ps) ==
    IF Len(ps) > 0
    THEN LET sorted == SortParts(ps)
             cs == sorted[1].Size
             kept == prefixScan(sorted, 1, cs, << >>)
         IN [parts |-> kept, size |-> 0, chunkSize |-> cs]
    ELSE [parts |-> ps, size |-> 0, chunkSize |-> driverChunkSize]

\* newWriter that keeps the configured chunk size for a resumed writer
newWriter_ConfiguredChunk(ps) ==
    IF Len(ps) > 0
    THEN LET sorted == SortParts(ps)
             cs == sorted[1].Size
             kept == prefixScan(sorted, 1, cs, << >>)
         IN [parts |-> kept, size |-> SumSize(kept), chunkSize |-> driverChunkSize]
    ELSE [parts |-> ps, size |-> 0, chunkSize |-> driverChunkSize]

\* SSS.newWriter: the trusted parts, size and chunk size of a writer
newWriter(ps) ==
    IF Len(ps) > 0
    THEN LET sorted == SortParts(ps)
             cs == sorted[1].Size
             kept == prefixScan(sorted, 1, cs, << >>)
         IN [parts |-> kept, size |-> SumSize(kept), chunkSize |-> cs]
    ELSE [parts |-> ps, size |-> 0, chunkSize |-> driverChunkSize]

\* done that does not look at cancelled
done_IgnoresCancelled ==
    IF closed THEN "already closed"
    ELSE IF committed THEN "already committed"
    ELSE ""

\* done that does not look at committed
done_IgnoresCommitted ==
    IF closed THEN "already closed"
    ELSE IF cancelled THEN "already cancelled"
    ELSE ""

done ==
    IF closed THEN "already closed"
    ELSE IF committed THEN "already committed"
    ELSE IF cancelled THEN "already cancelled"
    ELSE ""

\* a call to the store made on behalf of the writer, and whether it succeeded
Call(name, pn, body, req, ok) ==
    [call |-> name, Key |-> key, UploadId |-> uploadID, PartNumber |-> pn,
     Body |-> body, Parts |-> req, ok |-> ok]

\* flush that uploads a part also when the buffer is empty
flush_NoEmptyCheck(c, outcome) ==
    LET partSize == Min(chunkSize, Len(c.buf))
        body == SubSeq(c.buf, 1, partSize)
        rest == SubSeq(c.buf, partSize + 1, Len(c.buf))
        partNumber == Len(c.parts) + 1
        ok == outcome /\ c.sess.State = "open" /\ c.sess.Key = key
    IN IF ~ok
       THEN [c EXCEPT !.buf = rest, !.err = "upload part",
                      !.calls = Append(@, Call("UploadPart", partNumber, body, << >>, FALSE))]
       ELSE [c EXCEPT !.buf = rest, !.err = "",
                      !.parts = Append(@, [PartNumber |-> partNumber,
                                           ETag |-> body,
                                           Size |-> partSize]),
                      !.size = @ + partSize,
                      !.sess = S3UploadPart(@, partNumber, body),
                      !.calls = Append(@, Call("UploadPart", partNumber, body, << >>, TRUE))]

\* flush that numbers the part by the count of trusted parts
flush_PartNumberLen(c, outcome) ==
    LET partSize == Min(chunkSize, Len(c.buf))
        body == SubSeq(c.buf, 1, partSize)
        rest == SubSeq(c.buf, partSize + 1, Len(c.buf))
        partNumber == Len(c.parts)
        ok == outcome /\ c.sess.State = "open" /\ c.sess.Key = key
    IN IF Len(c.buf) = 0 THEN [c EXCEPT !.err = ""]
       ELSE IF ~ok
       THEN [c EXCEPT !.buf = rest, !.err = "upload part",
                      !.calls = Append(@, Call("UploadPart", partNumber, body, << >>, FALSE))]
       ELSE [c EXCEPT !.buf = rest, !.err = "",
                      !.parts = Append(@, [PartNumber |-> partNumber,
                                           ETag |-> body,
                                           Size |-> partSize]),
                      !.size = @ + partSize,
                      !.sess = S3UploadPart(@, partNumber, body),
                      !.calls = Append(@, Call("UploadPart", partNumber, body, << >>, TRUE))]

\* flush that advances size by the chunk size instead of the part size
flush_SizeByChunk(c, outcome) ==
    LET partSize == Min(chunkSize, Len(c.buf))
        body == SubSeq(c.buf, 1, partSize)
        rest == SubSeq(c.buf, partSize + 1, Len(c.buf))
        partNumber == Len(c.parts) + 1
        ok == outcome /\ c.sess.State = "open" /\ c.sess.Key = key
    IN IF Len(c.buf) = 0 THEN [c EXCEPT !.err = ""]
       ELSE IF ~ok
       THEN [c EXCEPT !.buf = rest, !.err = "upload part",
                      !.calls = Append(@, Call("UploadPart", partNumber, body, << >>, FALSE))]
       ELSE [c EXCEPT !.buf = rest, !.err = "",
                      !.parts = Append(@, [PartNumber |-> partNumber,
                                           ETag |-> body,
                                           Size |-> partSize]),
                      !.size = @ + chunkSize,
                      !.sess = S3UploadPart(@, partNumber, body),
                      !.calls = Append(@, Call("UploadPart", partNumber, body, << >>, TRUE))]

\* writer.flush on c = [parts, size, buf, sess, err, calls]; outcome says
\* whether the store accepts the part when the session is open
flush(c, outcome) ==
    IF Len(c.buf) = 0 THEN [c EXCEPT !.err = ""]
    ELSE LET partSize == Min(chunkSize, Len(c.buf))
             body == SubSeq(c.buf, 1, partSize)
             rest == SubSeq(c.buf, partSize + 1, Len(c.buf))
             partNumber == Len(c.parts) + 1
             ok == outcome /\ c.sess.State = "open" /\ c.sess.Key = key
         IN IF ~ok
            THEN [c EXCEPT !.buf = rest, !.err = "upload part",
                           !.calls = Append(@, Call("UploadPart", partNumber, body, << >>, FALSE))]
            ELSE [c EXCEPT !.buf = rest, !.err = "",
                           !.parts = Append(@, [PartNumber |-> partNumber,
                                                ETag |-> body,
                                                Size |-> partSize]),
                           !.size = @ + partSize,
                           !.sess = S3UploadPart(@, partNumber, body),
                           !.calls = Append(@, Call("UploadPart", partNumber, body, << >>, TRUE))]

\* the flush loop as a single test: at most one flush per Write
writeLoop_OneFlush(c, k, failAt) ==
    IF Len(c.buf) >= chunkSize
    THEN LET c2 == flush(c, k # failAt)
         IN IF c2.err # "" THEN [c2 EXCEPT !.err = "flush"]
            ELSE [c2 EXCEPT !.err = ""]
    ELSE [c EXCEPT !.err = ""]

\* the flush loop flushing only once the buffer exceeds the chunk size
RECURSIVE writeLoop_Exceeds(_, _, _)
writeLoop_Exceeds(c, k, failAt) ==
    IF Len(c.buf) > chunkSize
    THEN LET c2 == flush(c, k # failAt)
         IN IF c2.err # "" THEN [c2 EXCEPT !.err = "flush"]
            ELSE writeLoop_Exceeds(c2, k + 1, failAt)
    ELSE [c EXCEPT !.err = ""]

\* the flush loop of writer.Write; flush number failAt fails
RECURSIVE writeLoop(_, _, _)
writeLoop(c, k, failAt) ==
    IF Len(c.buf) >= chunkSize
    THEN LET c2 == flush(c, k # failAt)
         IN IF c2.err # "" THEN [c2 EXCEPT !.err = "flush"]
            ELSE writeLoop(c2, k + 1, failAt)
    ELSE [c EXCEPT !.err = ""]

Pre == [parts |-> parts, size |-> size, buf |-> buf, closed |-> closed,
        committed |-> committed, cancelled |-> cancelled,
        chunkSize |-> chunkSize]

Cur == [parts |-> parts, size |-> size, buf |-> buf,
        sess |-> sessions[uploadID], err |-> "", calls |-> << >>]

Failed(c) == \E i \in 1..Len(c.calls) : ~c.calls[i].ok

Rejected(op, d) ==
    /\ UNCHANGED pos
    /\ last' = [op |-> op, err |-> d, n |-> 0, p |-> << >>, pre |-> Pre, calls |-> << >>]
    /\ UNCHANGED <<others, driverVars, pool, sessions, objects, writerConst, parts,
                   size, buf, closed, committed, cancelled, hist>>

Write(len, failAt) ==
    /\ pos + len <= MaxData
    /\ IF done # "" THEN Rejected("Write", done)
       ELSE LET p == [i \in 1..len |-> pos + i]
                c == writeLoop([Cur EXCEPT !.buf = @ \o p], 1, failAt)
            IN /\ pos' = pos + len
               /\ parts' = c.parts
               /\ size' = c.size
               /\ buf' = c.buf
               /\ sessions' = [sessions EXCEPT ![uploadID] = c.sess]
               /\ hist' = [hist EXCEPT !.clean = @ /\ ~Failed(c)]
               /\ last' = [op |-> "Write", err |-> c.err,
                           n |-> IF c.err = "" THEN len ELSE 0,
                           p |-> p, pre |-> Pre, calls |-> c.calls]
               /\ UNCHANGED <<others, driverVars, pool, objects, writerConst,
                              closed, committed, cancelled>>

\* Commit that never sets committed
Commit_StaysOpen(okU, okC) ==
    /\ IF done # "" THEN Rejected("Commit", done)
       ELSE LET c == flush(Cur, okU)
                req == SortParts([i \in 1..Len(c.parts) |->
                          [ETag |-> c.parts[i].ETag,
                           PartNumber |-> c.parts[i].PartNumber]])
                ok == okC /\ c.sess.Key = key /\ S3CanComplete(c.sess, req)
                err == IF c.err # "" THEN c.err
                       ELSE IF Len(c.parts) = 0 THEN "no parts to commit"
                       ELSE IF ~ok THEN "complete upload"
                       ELSE ""
                calls == IF c.err = "" /\ Len(c.parts) > 0
                         THEN Append(c.calls, Call("CompleteMultipartUpload", 0, << >>, req, ok))
                         ELSE c.calls
            IN /\ parts' = c.parts
               /\ size' = c.size
               /\ buf' = c.buf
               /\ committed' = FALSE
               /\ sessions' = [sessions EXCEPT ![uploadID] =
                                  IF err = "" THEN [c.sess EXCEPT !.State = "completed"]
                                  ELSE c.sess]
               /\ objects' = IF err = ""
                             THEN {o \in objects : o.Key # key}
                                  \cup {[Key |-> key, Body |-> S3Assemble(req)]}
                             ELSE objects
               /\ hist' = [hist EXCEPT !.clean = @ /\ ~Failed([calls |-> calls]),
                                       !.completes = @ + (Len(calls) - Len(c.calls))]
               /\ last' = [op |-> "Commit", err |-> err, n |-> 0,
                           p |-> << >>, pre |-> Pre, calls |-> calls]
               /\ UNCHANGED <<others, driverVars, pool, writerConst, closed, cancelled, pos>>

\* writer.Commit; okU, okC: whether the store accepts the part and the
\* completion request
Commit(okU, okC) ==
    /\ IF done # "" THEN Rejected("Commit", done)
       ELSE LET c == flush(Cur, okU)
                req == SortParts([i \in 1..Len(c.parts) |->
                          [ETag |-> c.parts[i].ETag,
                           PartNumber |-> c.parts[i].PartNumber]])
                ok == okC /\ c.sess.Key = key /\ S3CanComplete(c.sess, req)
                err == IF c.err # "" THEN c.err
                       ELSE IF Len(c.parts) = 0 THEN "no parts to commit"
                       ELSE IF ~ok THEN "complete upload"
                       ELSE ""
                calls == IF c.err = "" /\ Len(c.parts) > 0
                         THEN Append(c.calls, Call("CompleteMultipartUpload", 0, << >>, req, ok))
                         ELSE c.calls
            IN /\ parts' = c.parts
               /\ size' = c.size
               /\ buf' = c.buf
               /\ committed' = (c.err = "")
               /\ sessions' = [sessions EXCEPT ![uploadID] =
                                  IF err = "" THEN [c.sess EXCEPT !.State = "completed"]
                                  ELSE c.sess]
               /\ objects' = IF err = ""
                             THEN {o \in objects : o.Key # key}
                                  \cup {[Key |-> key, Body |-> S3Assemble(req)]}
                             ELSE objects
               /\ hist' = [hist EXCEPT !.clean = @ /\ ~Failed([calls |-> calls]),
                                       !.completes = @ + (Len(calls) - Len(c.calls))]
               /\ last' = [op |-> "Commit", err |-> err, n |-> 0,
                           p |-> << >>, pre |-> Pre, calls |-> calls]
               /\ UNCHANGED <<others, driverVars, pool, writerConst, closed, cancelled, pos>>

\* Cancel that sets cancelled only when the abort succeeded
Cancel_OnlyOnSuccess(okA) ==
    /\ IF done # "" THEN Rejected("Cancel", done)
       ELSE LET ok == okA /\ S3Open(key, uploadID)
            IN /\ cancelled' = ok
               /\ sessions' = IF ok
                              THEN [sessions EXCEPT ![uploadID].State = "aborted"]
                              ELSE sessions
               /\ hist' = [hist EXCEPT !.clean = @ /\ ok, !.aborts = @ + 1]
               /\ last' = [op |-> "Cancel",
                           err |-> IF ok THEN "" ELSE "abort upload",
                           n |-> 0, p |-> << >>, pre |-> Pre,
                           calls |-> <<Call("AbortMultipartUpload", 0, << >>, << >>, ok)>>]
               /\ UNCHANGED <<others, driverVars, pool, objects, writerConst, parts,
                              size, buf, closed, committed, pos>>

\* writer.Cancel; okA: whether the store accepts the abort
Cancel(okA) ==
    /\ IF done # "" THEN Rejected("Cancel", done)
       ELSE LET ok == okA /\ S3Open(key, uploadID)
            IN /\ cancelled' = TRUE
               /\ sessions' = IF ok
                              THEN [sessions EXCEPT ![uploadID].State = "aborted"]
                              ELSE sessions
               /\ hist' = [hist EXCEPT !.clean = @ /\ ok, !.aborts = @ + 1]
               /\ last' = [op |-> "Cancel",
                           err |-> IF ok THEN "" ELSE "abort upload",
                           n |-> 0, p |-> << >>, pre |-> Pre,
                           calls |-> <<Call("AbortMultipartUpload", 0, << >>, << >>, ok)>>]
               /\ UNCHANGED <<others, driverVars, pool, objects, writerConst, parts,
                              size, buf, closed, committed, pos>>

\* Close guarded by done() instead of the closed flag alone
Close_ChecksDone ==
    /\ IF done # ""
       THEN Rejected("Close", done)
       ELSE /\ closed' = TRUE
            /\ buf' = << >>
            /\ pool' = pool + 1
            /\ hist' = [hist EXCEPT !.puts = @ + 1]
            /\ last' = [op |-> "Close", err |-> "", n |-> 0, p |-> << >>,
                        pre |-> Pre, calls |-> << >>]
            /\ UNCHANGED <<others, driverVars, sessions, objects, writerConst, parts,
                           size, committed, cancelled, pos>>

\* writer.Close with its deferred releaseBuffer
Close ==
    /\ IF closed
       THEN Rejected("Close", "already closed")
       ELSE /\ closed' = TRUE
            /\ buf' = << >>
            /\ pool' = pool + 1
            /\ hist' = [hist EXCEPT !.puts = @ + 1]
            /\ last' = [op |-> "Close", err |-> "", n |-> 0, p |-> << >>, pre |-> Pre,
                        calls |-> << >>]
            /\ UNCHANGED <<others, driverVars, sessions, objects, writerConst, parts,
                           size, committed, cancelled, pos>>

\* SSS.WriterWithAppend for Path, followed by the caller's Seek of its input
\* to Size() (pos' = size, as TestFileWriter and the put command do);
\* okL, okP: whether the store answers the session and the part listing
WriterWithAppend(okL, okP) ==
    /\ hist.writers < MaxWriters
    /\ LET mps == IF okL THEN GetMultipart(Path) ELSE {}
           noWriter(e, calls) ==
               /\ last' = [op |-> "WriterWithAppend", err |-> e, n |-> 0,
                           p |-> << >>, pre |-> Pre, calls |-> calls]
               /\ hist' = [hist EXCEPT !.clean = @ /\ ~Failed([calls |-> calls])]
               /\ UNCHANGED <<others, driverVars, pool, sessions, objects, writerConst,
                              parts, size, buf, closed, committed, cancelled, pos>>
           listCall == Call("ListMultipartUploads", 0, << >>, << >>, okL)
       IN IF ~okL THEN noWriter("list uploads", <<listCall>>)
          ELSE IF mps = {} THEN noWriter("not found part", <<listCall>>)
          ELSE \E id \in mps :
                 LET k == sessions[id].Key
                     listing == ResumeListing(k, id)
                     ok == okP /\ listing.ok
                     partsCall == Call("ListParts", 0, << >>, << >>, ok)
                     w == newWriter(OrderParts(Resume(listing.parts)).parts)
                 IN IF ~ok THEN noWriter("list parts", <<listCall, partsCall>>)
                    ELSE /\ key' = s3Path(rootDirectory, Path)
                         /\ uploadID' = id
                         /\ parts' = w.parts
                         /\ size' = w.size
                         /\ chunkSize' = w.chunkSize
                         /\ buf' = << >>
                         /\ pool' = IF pool > 0 THEN pool - 1 ELSE 0
                         /\ closed' = FALSE
                         /\ committed' = FALSE
                         /\ cancelled' = FALSE
                         /\ pos' = w.size
                         /\ hist' = [hist EXCEPT !.writers = @ + 1,
                                                 !.resumed = TRUE,
                                                 !.puts = 0,
                                                 !.completes = 0,
                                                 !.aborts = 0,
                                                 !.k = Len(w.parts)]
                         /\ last' = [op |-> "WriterWithAppend", err |-> "",
                                     n |-> 0, p |-> << >>, pre |-> Pre,
                                     calls |-> <<listCall, partsCall>>]
                         /\ UNCHANGED <<others, driverVars, sessions, objects>>

\* the state after SSS.Writer(ctx, Path) returned a fresh writer
Init ==
    /\ rootDirectory \in Roots
    /\ driverChunkSize \in ChunkSizes
    /\ pool = 0
    /\ key = s3Path(rootDirectory, Path)
    /\ uploadID = 1
    /\ sessions = <<[Key |-> key, State |-> "open", Parts |-> {}]>>
    /\ objects = {}
    /\ parts = << >>
    /\ size = 0
    /\ buf = << >>
    /\ chunkSize = driverChunkSize
    /\ closed = FALSE
    /\ committed = FALSE
    /\ cancelled = FALSE
    /\ pos = 0
    /\ hist = [writers |-> 1, resumed |-> FALSE, clean |-> TRUE, k |-> 0,
               puts |-> 0, completes |-> 0, aborts |-> 0]
    /\ last = [op |-> "Writer", err |-> "", n |-> 0, p |-> << >>, pre |-> Pre,
               calls |-> << >>]
    /\ mp = [op |-> "none"]
    /\ walk = [op |-> "none"]
    /\ ws = [op |-> "none"]
    /\ del = [op |-> "none"]
    /\ loop = [op |-> "none"]
    /\ opt = [op |-> "none"]
    /\ rsc = [op |-> "none"]

Next ==
    \/ \E len \in 0..MaxWrite : \E failAt \in 0..(Len(buf) + len) : Write(len, failAt)
    \/ \E okU, okC \in BOOLEAN : Commit(okU, okC)
    \/ \E okA \in BOOLEAN : Cancel(okA)
    \/ Close
    \/ \E okL, okP \in BOOLEAN : WriterWithAppend(okL, okP)

Spec == Init /\ [][Next]_vars

\* ================================================================ claims
\* the last call was made on a writer that was already finalized
PreDone == last.pre.closed \/ last.pre.committed \/ last.pre.cancelled

\* the calls of the given kind the last operation made
CallsOf(name) ==
    SelectSeq(last.calls, LAMBDA c : c.call = name)

\* the first n bytes of the caller's input stream
Stream(n) == [i \in 1..n |-> i]

ObjectAt(k) == {o.Body : o \in {x \in objects : x.Key = k}}

\* C1: when every store call succeeded, a writer obtained by WriterWithAppend
\* trusts exactly the K parts the abandoned writer had uploaded and has
\* Size() = K*C; and once the caller has written its stream from Size() on
\* and committed, the object is the stream itself, which is also what the
\* uninterrupted writer commits for the same bytes.
C1_ResumeEquivalence ==
    /\ (hist.clean /\ last.op = "WriterWithAppend" /\ last.err = "")
          => /\ parts = last.pre.parts
             /\ hist.k = Len(last.pre.parts)
             /\ size = hist.k * driverChunkSize
    /\ (hist.clean /\ last.op = "Commit" /\ last.err = "")
          => ObjectAt(key) = {Stream(pos)}

C1_Witness ==
    /\ hist.clean /\ hist.resumed /\ hist.k >= 1
    /\ last.op = "Commit" /\ last.err = ""
    /\ pos > hist.k * chunkSize
    /\ pos % chunkSize # 0
    /\ ObjectAt(key) = {Stream(pos)}

\* C2: on a fresh writer whose part uploads all succeed, after Write calls
\* totalling N bytes exactly N div C parts of C bytes each are uploaded, and
\* Commit uploads one more part of N mod C bytes when N mod C > 0 and no
\* part otherwise.
C2_PartCount ==
    (hist.clean /\ ~hist.resumed) =>
        /\ ~committed =>
              /\ Len(parts) = pos \div chunkSize
              /\ Cardinality(sessions[uploadID].Parts) = pos \div chunkSize
              /\ \A i \in 1..Len(parts) : parts[i].Size = chunkSize
        /\ (last.op = "Commit" /\ ~PreDone) =>
              /\ Len(last.pre.parts) = pos \div chunkSize
              /\ IF pos % chunkSize > 0
                 THEN /\ Len(CallsOf("UploadPart")) = 1
                      /\ Len(CallsOf("UploadPart")[1].Body) = pos % chunkSize
                      /\ Len(parts) = pos \div chunkSize + 1
                 ELSE /\ CallsOf("UploadPart") = << >>
                      /\ parts = last.pre.parts

C2_Witness ==
    /\ hist.clean /\ ~hist.resumed
    /\ last.op = "Commit" /\ last.err = ""
    /\ Len(last.pre.parts) = 2
    /\ Len(parts) = 3
    /\ parts[3].Size < chunkSize

\* the bytes the last operation had in the buffer when its failing flush began
BeforeFailedFlush ==
    LET all == last.pre.buf \o last.p
        sent == SumSize(SelectSeq(parts, LAMBDA x : x.PartNumber > Len(last.pre.parts)))
    IN SubSeq(all, sent + 1, Len(all))

\* C3: when the part upload of a flush fails during Write or Commit, the
\* caller gets the error and the trusted parts, Size() and the buffered
\* bytes are what they were before that flush.
C3_FailedFlushKeepsState ==
    (/\ last.op \in {"Write", "Commit"}
     /\ \E i \in 1..Len(last.calls) :
           last.calls[i].call = "UploadPart" /\ ~last.calls[i].ok)
    => /\ last.err # ""
       /\ Len(parts) + 1 = last.calls[Len(last.calls)].PartNumber
       /\ size = SumSize(parts)
       /\ buf = BeforeFailedFlush

\* C4: a Commit that succeeds leaves no byte in the buffer; the bytes that
\* were buffered when it was called are in the parts of its request.
C4_CommitFlushesAll ==
    (last.op = "Commit" /\ ~PreDone /\ last.err = "")
    => /\ buf = << >>
       /\ LET req == CallsOf("CompleteMultipartUpload")[1].Parts
          IN \A i \in 1..Len(last.pre.buf) :
                \E j \in 1..Len(req) : \E x \in 1..Len(req[j].ETag) :
                   req[j].ETag[x] = last.pre.buf[i]

\* C5: committed is set only once the store acknowledged the completion: a
\* Commit that returns an error leaves the writer not committed, and no
\* call is rejected as already committed unless the store completed the
\* upload.
C5_CommittedAfterAck ==
    /\ (last.op = "Commit" /\ ~PreDone /\ last.err # "") => ~committed
    /\ committed => sessions[uploadID].State = "completed"
    /\ last.err = "already committed" => sessions[uploadID].State = "completed"

\* C6: on a writer with closed, committed or cancelled set, Write, Commit
\* and Cancel return the already-... error, call the store not at all and
\* leave buffer, trusted parts and Size() as they were.
C6_FinalizedRejects ==
    (PreDone /\ last.op \in {"Write", "Commit", "Cancel"})
    => /\ last.err \in {"already closed", "already committed", "already cancelled"}
       /\ last.n = 0
       /\ last.calls = << >>
       /\ buf = last.pre.buf
       /\ parts = last.pre.parts
       /\ size = last.pre.size

C6_Witness ==
    /\ last.op = "Write"
    /\ last.pre.cancelled /\ ~last.pre.closed /\ ~last.pre.committed
    /\ Len(buf) > 0
    /\ last.err = "already cancelled"

\* C7: whatever the store answers, one writer makes at most one
\* complete-upload call and at most one abort call, and never both.
C7_OneTerminalCall ==
    /\ hist.completes <= 1
    /\ hist.aborts <= 1
    /\ hist.completes + hist.aborts <= 1

C7_Witness ==
    /\ hist.completes = 1
    /\ last.op = "Cancel"
    /\ last.err = "already committed"
    /\ sessions[uploadID].State = "open"

\* C8: Cancel on a writer that is not finalized makes exactly one abort call
\* for the writer's key and upload id and sets cancelled whether or not the
\* abort succeeds; afterwards Write, Commit and Cancel fail without a store
\* call and the writer stays cancelled.
C8_CancelIsFinal ==
    /\ (last.op = "Cancel" /\ ~PreDone)
          => /\ cancelled
             /\ Len(last.calls) = 1
             /\ last.calls[1].call = "AbortMultipartUpload"
             /\ last.calls[1].Key = key
             /\ last.calls[1].UploadId = uploadID
    /\ (last.pre.cancelled /\ last.op \in {"Write", "Commit", "Cancel", "Close"})
          => cancelled
    /\ (last.pre.cancelled /\ last.op \in {"Write", "Commit", "Cancel"})
          => /\ last.err # ""
             /\ last.calls = << >>
             /\ parts = last.pre.parts

C8_Witness ==
    /\ last.op = "Cancel" /\ ~PreDone
    /\ last.err = "abort upload"
    /\ sessions[uploadID].State = "open"
    /\ Len(buf) > 0
    /\ cancelled

\* C9: Commit on a writer with no trusted part and an empty buffer fails
\* with the no-parts error without any call to the store.
C9_NoPartsCommit ==
    (last.op = "Commit" /\ ~PreDone /\ last.pre.parts = << >> /\ last.pre.buf = << >>)
    => /\ last.err = "no parts to commit"
       /\ last.calls = << >>

C9_Witness ==
    /\ last.op = "Commit" /\ ~PreDone
    /\ last.pre.parts = << >> /\ last.pre.buf = << >>
    /\ last.err = "no parts to commit"

\* C10: the first Close succeeds whether the writer is open, committed or
\* cancelled and puts the buffer into the pool once; every later Write,
\* Commit, Cancel and Close fails with the already-closed error and the
\* buffer is never put a second time.
C10_CloseOnce ==
    /\ (last.op = "Close" /\ ~last.pre.closed)
          => last.err = "" /\ closed /\ hist.puts = 1 /\ buf = << >>
    /\ (last.pre.closed /\ last.op \in {"Write", "Commit", "Cancel", "Close"})
          => last.err = "already closed" /\ closed /\ buf = << >>
    /\ hist.puts = (IF closed THEN 1 ELSE 0)

C10_Witness ==
    /\ last.op = "Close" /\ last.pre.closed /\ last.pre.committed
    /\ last.err = "already closed"
    /\ hist.puts = 1

\* the last operation acted on the writer it left behind (it did not create one)
SameWriter ==
    last.op \in {"Write", "Commit", "Cancel", "Close"}
    \/ (last.op = "WriterWithAppend" /\ last.err # "")

\* C11: the parts named in a completion request of a fresh or a resumed
\* writer are numbered 1..n in this order, without gap or duplicate, and
\* each flush uploads under the number of trusted parts plus one.
C11_DenseAscending ==
    /\ \A i \in 1..Len(parts) : parts[i].PartNumber = i
    /\ \A j \in 1..Len(CallsOf("CompleteMultipartUpload")) :
          LET req == CallsOf("CompleteMultipartUpload")[j].Parts
          IN /\ Len(req) = Len(parts)
             /\ \A i \in 1..Len(req) : req[i].PartNumber = i
    /\ \A j \in 1..Len(CallsOf("UploadPart")) :
          CallsOf("UploadPart")[j].PartNumber = Len(last.pre.parts) + j

C11_Witness ==
    /\ hist.resumed /\ hist.k >= 1
    /\ last.op = "Commit"
    /\ Len(CallsOf("UploadPart")) = 1
    /\ Len(CallsOf("CompleteMultipartUpload")) = 1
    /\ Len(CallsOf("CompleteMultipartUpload")[1].Parts) >= 3

\* C12: Size() is the sum of the sizes of the trusted parts (the resumed
\* prefix and the parts whose upload the store acknowledged), it does not
\* count the bytes in the buffer, and it never decreases.
C12_SizeIsTrustedBytes ==
    /\ size = SumSize(parts)
    /\ SameWriter =>
          /\ size >= last.pre.size
          /\ size - last.pre.size =
                SumSize(SelectSeq([i \in 1..Len(last.calls) |->
                                     [Size |-> IF last.calls[i].ok
                                               THEN Len(last.calls[i].Body) ELSE 0]],
                                  LAMBDA x : TRUE))
    /\ (last.op = "WriterWithAppend" /\ last.err = "")
          => size = SumSize(OrderParts(S3ListParts(sessions[uploadID])).parts)

C12_Witness ==
    /\ hist.resumed /\ hist.k >= 1
    /\ last.op = "Commit" /\ last.err = ""
    /\ size > last.pre.size
    /\ size % chunkSize # 0
    /\ size > hist.k * chunkSize

\* a session is open for the key of Path and the store holds no part of it
EmptySession(id) ==
    /\ id \in DOMAIN sessions
    /\ sessions[id].Key = s3Path(rootDirectory, Path)
    /\ sessions[id].State = "open"
    /\ sessions[id].Parts = {}

\* C16: when an upload session exists for the key and the store lists no
\* part for it, WriterWithAppend returns a writer on that upload id with
\* Size() = 0 and the configured chunk size; when the part listing fails the
\* error is returned and no writer is created.
C16_EmptySessionResumes ==
    /\ (/\ last.op = "WriterWithAppend"
        /\ \A i \in 1..Len(last.calls) : last.calls[i].ok
        /\ \E id \in DOMAIN sessions : EmptySession(id))
       => /\ last.err = ""
          /\ EmptySession(uploadID)
          /\ parts = << >>
          /\ size = 0
          /\ chunkSize = driverChunkSize
    /\ (/\ last.op = "WriterWithAppend"
        /\ \E i \in 1..Len(last.calls) :
              last.calls[i].call = "ListParts" /\ ~last.calls[i].ok)
       => /\ last.err # ""
          /\ hist.writers = 1
          /\ ~hist.resumed

\* C18: the chunk size of a writer does not change after construction; for
\* a resumed writer with a non-empty trusted prefix it is the size of part
\* 1, otherwise the configured chunk size; every part Write flushes has
\* exactly that size.
C18_ChunkSizeFixed ==
    /\ SameWriter => chunkSize = last.pre.chunkSize
    /\ last.op = "Writer" => chunkSize = driverChunkSize
    /\ (last.op = "WriterWithAppend" /\ last.err = "")
          => chunkSize = (IF parts = << >> THEN driverChunkSize
                          ELSE S3ListParts(sessions[uploadID])[1].Size)
    /\ last.op = "Write"
          => \A j \in 1..Len(CallsOf("UploadPart")) :
                Len(CallsOf("UploadPart")[j].Body) = chunkSize

C18_Witness ==
    /\ hist.resumed /\ hist.k >= 1
    /\ chunkSize # driverChunkSize
    /\ last.op = "Write" /\ last.err = ""
    /\ Len(CallsOf("UploadPart")) >= 1

\* =========================================== the reconciler on any listing
\* the part records a store listing is made of in the model
ETags == {<<1>>, <<2>>}
ListedParts == [PartNumber : 1..MaxPart, Size : ChunkSizes, ETag : ETags]
\* what ListParts returns over all its pages, appended page after page
Listings == UNION {[1..n -> ListedParts] : n \in 0..MaxListing}

\* a driver without root directory on which no writer was created
NoWriter ==
    /\ pool = 0
    /\ key = << >>
    /\ uploadID = 0
    /\ parts = << >>
    /\ size = 0
    /\ buf = << >>
    /\ chunkSize = driverChunkSize
    /\ closed = FALSE
    /\ committed = FALSE
    /\ cancelled = FALSE
    /\ pos = 0
    /\ hist = [writers |-> 0, resumed |-> FALSE, clean |-> TRUE, k |-> 0,
               puts |-> 0, completes |-> 0, aborts |-> 0]
    /\ last = [op |-> "NewSSS", err |-> "", n |-> 0, p |-> << >>, pre |-> Pre,
               calls |-> << >>]

\* Multipart.Resume of the handle built against sdk version v
ResumeOf(v, listing) ==
    IF v = 1 THEN ResumeV1(listing)
    ELSE [panic |-> FALSE, parts |-> Resume(listing)]

\* Multipart.Resume: m.parts is set from the listing, or the call panics
MultipartResume(v) ==
    /\ mp.op = "GetMultipartWithUploadID"
    /\ LET r == ResumeOf(v, mp.listing)
       IN mp' = [mp EXCEPT !.op = "Resume", !.sdk = v,
                           !.panic = r.panic, !.parts = r.parts]
    /\ UNCHANGED <<walk, ws, del, loop, opt, rsc, driverVars, sessions, objects, writerVars>>

\* Multipart.OrderParts: Resume when m.parts is empty, then the scan; the
\* read of m.parts[0].Size panics on the marker of a conflicting part number
MultipartOrderParts(v) ==
    /\ \/ mp.op = "GetMultipartWithUploadID"
       \/ mp.op = "Resume" /\ mp.sdk = v /\ ~mp.panic
    /\ LET r == IF Len(mp.parts) = 0 THEN ResumeOf(v, mp.listing)
                ELSE [panic |-> FALSE, parts |-> mp.parts]
           nil == r.parts # << >> /\ r.parts[1] = ignore
       IN mp' = [mp EXCEPT !.op = "OrderParts", !.sdk = v,
                           !.panic = r.panic \/ nil,
                           !.parts = r.parts,
                           !.ordered = IF r.panic \/ nil
                                       THEN [parts |-> << >>, size |-> 0]
                                       ELSE OrderParts(r.parts)]
    /\ UNCHANGED <<walk, ws, del, loop, opt, rsc, driverVars, sessions, objects, writerVars>>

\* a handle on an upload whose parts the store lists as mp.listing
InitResume ==
    /\ rootDirectory = << >>
    /\ driverChunkSize = 1
    /\ sessions = << >>
    /\ objects = {}
    /\ NoWriter
    /\ mp \in {[op |-> "GetMultipartWithUploadID", sdk |-> 0, listing |-> l,
                panic |-> FALSE, parts |-> << >>,
                ordered |-> [parts |-> << >>, size |-> 0]] : l \in Listings}
    /\ walk = [op |-> "none"]
    /\ ws = [op |-> "none"]
    /\ del = [op |-> "none"]
    /\ loop = [op |-> "none"]
    /\ opt = [op |-> "none"]
    /\ rsc = [op |-> "none"]

NextResume ==
    \/ \E v \in {1, 2} : MultipartResume(v)
    \/ \E v \in {1, 2} : MultipartOrderParts(v)

SpecResume == InitResume /\ [][NextResume]_vars

\* the listing has a record of part number n
Listed(listing, n) == \E i \in 1..Len(listing) : listing[i].PartNumber = n

\* the first record of part number n in the listing
PartOf(listing, n) ==
    listing[CHOOSE i \in 1..Len(listing) : listing[i].PartNumber = n]

\* two records of part number n differ in size or etag
Conflicted(listing, n) ==
    \E i, j \in 1..Len(listing) :
        /\ listing[i].PartNumber = n
        /\ listing[j].PartNumber = n
        /\ (listing[i].Size # listing[j].Size \/ listing[i].ETag # listing[j].ETag)

ConflictFree(listing) ==
    \A i \in 1..Len(listing) : ~Conflicted(listing, listing[i].PartNumber)

\* parts 1..k are all listed and each has the size of part 1
DensePrefix(listing, k) ==
    \A n \in 1..k :
        Listed(listing, n) /\ PartOf(listing, n).Size = PartOf(listing, 1).Size

TrustedK(listing) ==
    CHOOSE k \in 0..Len(listing) :
        /\ DensePrefix(listing, k)
        /\ \A j \in (k + 1)..Len(listing) : ~DensePrefix(listing, j)

\* C13: for a listing without conflicting records OrderParts returns the
\* parts 1..K, K the largest number such that parts 1..K are listed with the
\* size of part 1 (nothing when part 1 is missing), its size is the sum of
\* their sizes, and no part after the first gap or size mismatch is kept.
C13_TrustedPrefix ==
    (mp.op = "OrderParts" /\ ConflictFree(mp.listing))
    => LET K == TrustedK(mp.listing)
       IN /\ ~mp.panic
          /\ mp.ordered.parts = [n \in 1..K |-> PartOf(mp.listing, n)]
          /\ mp.ordered.size = SumSize([n \in 1..K |-> PartOf(mp.listing, n)])
          /\ ~Listed(mp.listing, 1)
                => mp.ordered = [parts |-> << >>, size |-> 0]

C13_Witness ==
    /\ mp.op = "OrderParts"
    /\ ConflictFree(mp.listing)
    /\ TrustedK(mp.listing) = 1
    /\ Listed(mp.listing, 2) /\ Listed(mp.listing, 3)
    /\ PartOf(mp.listing, 2).Size = PartOf(mp.listing, 3).Size
    /\ mp.listing[1].PartNumber = 3
    /\ Len(mp.ordered.parts) = 1

\* C14: after Resume of any listing, a part number whose records differ in
\* size or etag is not in m.parts, every other listed part number is in it
\* exactly once with its listed record, and m.parts ascends by part number.
C14_ResumeDropsConflicts ==
    mp.op = "Resume"
    => /\ ~mp.panic
       /\ \A i \in 1..Len(mp.parts) :
             /\ Listed(mp.listing, mp.parts[i].PartNumber)
             /\ ~Conflicted(mp.listing, mp.parts[i].PartNumber)
             /\ mp.parts[i] = PartOf(mp.listing, mp.parts[i].PartNumber)
       /\ \A j \in 1..Len(mp.listing) :
             ~Conflicted(mp.listing, mp.listing[j].PartNumber)
             => Cardinality({i \in 1..Len(mp.parts) :
                    mp.parts[i].PartNumber = mp.listing[j].PartNumber}) = 1
       /\ \A i \in 1..(Len(mp.parts) - 1) :
             mp.parts[i].PartNumber < mp.parts[i + 1].PartNumber

\* ====================================== several upload sessions in the store
\* the paths callers upload to: Path and a path that has Path as a prefix
Paths == {Path, Path \o <<"2">>}

\* the callers that left the sessions behind are gone before the driver
\* resumes: the store changes only until the first WriterWithAppend
BeforeResume == last.op = "NewSSS"

\* SSS.NewMultipart: the store opens a session under s3Path(path)
NewMultipart(path) ==
    /\ BeforeResume
    /\ Len(sessions) < MaxSessions
    /\ sessions' = Append(sessions, [Key |-> s3Path(rootDirectory, path),
                                     State |-> "open", Parts |-> {}])
    /\ UNCHANGED <<others, driverVars, objects, writerVars>>

\* Multipart.UploadPart on the handle NewMultipart returned for session id
UploadPart(id, partNumber) ==
    /\ BeforeResume
    /\ id \in DOMAIN sessions
    /\ sessions[id].State = "open"
    /\ sessions' = [sessions EXCEPT ![id] = S3UploadPart(@, partNumber, <<partNumber>>)]
    /\ UNCHANGED <<others, driverVars, objects, writerVars>>

InitSessions ==
    /\ rootDirectory \in Roots
    /\ driverChunkSize = 1
    /\ sessions = << >>
    /\ objects = {}
    /\ NoWriter
    /\ mp = [op |-> "none"]
    /\ walk = [op |-> "none"]
    /\ ws = [op |-> "none"]
    /\ del = [op |-> "none"]
    /\ loop = [op |-> "none"]
    /\ opt = [op |-> "none"]
    /\ rsc = [op |-> "none"]

NextSessions ==
    \/ \E path \in Paths : NewMultipart(path)
    \/ \E id \in 1..MaxSessions, partNumber \in 1..MaxPart : UploadPart(id, partNumber)
    \/ \E okL, okP \in BOOLEAN : WriterWithAppend(okL, okP)

SpecSessions == InitSessions /\ [][NextSessions]_vars

\* the open sessions whose key is exactly the key of Path
ExactSessions ==
    {id \in DOMAIN sessions :
        /\ sessions[id].State = "open"
        /\ sessions[id].Key = s3Path(rootDirectory, Path)}

\* the bytes of the parts 1..K of a session, K as in C13
TrustedSize(id) ==
    LET listing == S3ListParts(sessions[id])
    IN SumSize([n \in 1..TrustedK(listing) |-> PartOf(listing, n)])

\* C17: WriterWithAppend for a key resumes a session whose key is exactly
\* that key, never one of a key that only starts with it, and one whose
\* trusted prefix is at least as large as that of every other session of the
\* key; without such a session it returns "not found part" and no writer.
C17_LargestExactSession ==
    (last.op = "WriterWithAppend" /\ \A i \in 1..Len(last.calls) : last.calls[i].ok)
    => IF ExactSessions = {}
       THEN last.err = "not found part" /\ hist.writers = 0
       ELSE /\ last.err = ""
            /\ uploadID \in ExactSessions
            /\ size = TrustedSize(uploadID)
            /\ \A o \in ExactSessions : size >= TrustedSize(o)

\* =================================== concurrent uploads through one handle
\* the number of parts the caller cuts n bytes into
partCount(n) == (n \div driverChunkSize) + (IF n % driverChunkSize # 0 THEN 1 ELSE 0)

\* the bytes of part i of the caller's n bytes
partBody(n, i) ==
    SubSeq(Stream(n), driverChunkSize * (i - 1) + 1,
           Min(driverChunkSize * i, n))

\* a goroutine calls m.UploadPart(i, body): the request is on its way
UploadPartCall(i) ==
    /\ mp.op \in {"NewMultipart", "UploadPart"}
    /\ i \in DOMAIN mp.up
    /\ mp.up[i] = "idle"
    /\ mp' = [mp EXCEPT !.op = "UploadPart", !.up[i] = "sent"]
    /\ UNCHANGED <<walk, ws, del, loop, opt, rsc, driverVars, sessions, objects, writerVars>>

\* the store takes the part under the key of the handle and the call returns
UploadPartReturn(i) ==
    /\ mp.op = "UploadPart"
    /\ i \in DOMAIN mp.up
    /\ mp.up[i] = "sent"
    /\ sessions[mp.uploadID].Key = mp.key
    /\ sessions' = [sessions EXCEPT ![mp.uploadID] =
                       S3UploadPart(@, i, partBody(mp.n, i))]
    /\ mp' = [mp EXCEPT !.up[i] = "done"]
    /\ UNCHANGED <<walk, ws, del, loop, opt, rsc, driverVars, objects, writerVars>>

\* OrderParts on a fresh handle returning every part Resume kept
FreshOrderParts_AllParts(okL) ==
    /\ mp.op \in {"NewMultipart", "UploadPart"}
    /\ LET listing == ResumeListing(mp.key, mp.uploadID)
           mparts == Resume(listing.parts)
       IN mp' = [mp EXCEPT !.ordered =
                    IF ~(okL /\ listing.ok)
                    THEN [err |-> "list parts", parts |-> << >>, stored |-> {}]
                    ELSE [err |-> "", parts |-> mparts,
                          stored |-> sessions[mp.uploadID].Parts]]
    /\ UNCHANGED <<walk, ws, del, loop, opt, rsc, driverVars, sessions, objects, writerVars>>

\* OrderParts on a fresh handle of the session (m.parts empty, so Resume
\* lists the session) while uploads are on their way; the result is kept
\* with the parts the store held at that moment
FreshOrderParts(okL) ==
    /\ mp.op \in {"NewMultipart", "UploadPart"}
    /\ LET listing == ResumeListing(mp.key, mp.uploadID)
           mparts == Resume(listing.parts)
       IN mp' = [mp EXCEPT !.ordered =
                    IF ~(okL /\ listing.ok)
                    THEN [err |-> "list parts", parts |-> << >>, stored |-> {}]
                    ELSE [err |-> "", parts |-> OrderParts(mparts).parts,
                          stored |-> sessions[mp.uploadID].Parts]]
    /\ UNCHANGED <<walk, ws, del, loop, opt, rsc, driverVars, sessions, objects, writerVars>>

\* AllParts or OrderParts on the uploading handle itself: Resume fills
\* m.parts when it is empty
HandleAllParts(okL) ==
    /\ mp.op \in {"NewMultipart", "UploadPart"}
    /\ Len(mp.parts) = 0
    /\ LET listing == ResumeListing(mp.key, mp.uploadID)
           mparts == Resume(listing.parts)
       IN mp' = IF ~(okL /\ listing.ok) THEN [mp EXCEPT !.err = "list parts"]
                ELSE [mp EXCEPT !.err = "", !.parts = mparts,
                                !.cached = (Len(mparts) > 0)]
    /\ UNCHANGED <<walk, ws, del, loop, opt, rsc, driverVars, sessions, objects, writerVars>>

\* Multipart.Commit after every upload has returned: Resume when m.parts is
\* empty, then CompleteMultipartUpload with the sorted parts
MultipartCommit(okL, okC) ==
    /\ mp.op = "UploadPart"
    /\ \A i \in DOMAIN mp.up : mp.up[i] = "done"
    /\ LET listing == IF Len(mp.parts) = 0
                      THEN ResumeListing(mp.key, mp.uploadID)
                      ELSE [ok |-> TRUE, parts |-> << >>]
           mparts == IF Len(mp.parts) = 0 THEN Resume(listing.parts) ELSE mp.parts
           req == SortParts([i \in 1..Len(mparts) |->
                               [ETag |-> mparts[i].ETag,
                                PartNumber |-> mparts[i].PartNumber]])
           sess == sessions[mp.uploadID]
           returns(e, ps, r) ==
               /\ mp' = [mp EXCEPT !.op = "Commit", !.err = e, !.parts = ps,
                                   !.req = r, !.fault = ~okL \/ ~okC]
               /\ UNCHANGED <<sessions, objects>>
       IN IF ~((okL \/ Len(mp.parts) > 0) /\ listing.ok)
          THEN returns("list parts", << >>, << >>)
          ELSE IF Len(mparts) = 0 THEN returns("no parts commit", << >>, << >>)
          ELSE IF ~(okC /\ sess.Key = mp.key /\ S3CanComplete(sess, req))
          THEN returns("complete upload", mparts, req)
          ELSE /\ mp' = [mp EXCEPT !.op = "Commit", !.err = "", !.parts = mparts,
                                   !.req = req, !.fault = FALSE]
               /\ sessions' = [sessions EXCEPT ![mp.uploadID].State = "completed"]
               /\ objects' = objects \cup {[Key |-> mp.key, Body |-> S3Assemble(req)]}
    /\ UNCHANGED <<walk, ws, del, loop, opt, rsc, driverVars, writerVars>>

\* the state after m := s.NewMultipart(ctx, Path), the caller holding n bytes
InitUpload ==
    /\ rootDirectory \in Roots
    /\ driverChunkSize \in ChunkSizes
    /\ sessions = <<[Key |-> s3Path(rootDirectory, Path), State |-> "open",
                     Parts |-> {}]>>
    /\ objects = {}
    /\ NoWriter
    /\ mp \in {[op |-> "NewMultipart", key |-> s3Path(rootDirectory, Path),
                uploadID |-> 1, parts |-> << >>, n |-> n,
                up |-> [i \in 1..partCount(n) |-> "idle"],
                err |-> "", req |-> << >>, fault |-> FALSE, cached |-> FALSE,
                ordered |-> [err |-> "none", parts |-> << >>, stored |-> {}]] :
                    n \in 1..MaxData}
    /\ walk = [op |-> "none"]
    /\ ws = [op |-> "none"]
    /\ del = [op |-> "none"]
    /\ loop = [op |-> "none"]
    /\ opt = [op |-> "none"]
    /\ rsc = [op |-> "none"]

NextUpload ==
    \/ \E i \in 1..MaxData : UploadPartCall(i)
    \/ \E i \in 1..MaxData : UploadPartReturn(i)
    \/ \E okL \in BOOLEAN : FreshOrderParts(okL)
    \/ \E okL \in BOOLEAN : HandleAllParts(okL)
    \/ \E okL, okC \in BOOLEAN : MultipartCommit(okL, okC)

SpecUpload == InitUpload /\ [][NextUpload]_vars

\* C15: when parts 1..M were uploaded by concurrent UploadPart calls in any
\* order and all have returned, a Commit to which the store reports no
\* failure names the M parts in ascending order and the object is the
\* concatenation of the part bodies in part number order.
C15_ConcurrentUploadCommit ==
    (mp.op = "Commit" /\ ~mp.fault /\ ~mp.cached)
    => /\ mp.err = ""
       /\ Len(mp.req) = partCount(mp.n)
       /\ \A i \in 1..Len(mp.req) :
             mp.req[i] = [ETag |-> partBody(mp.n, i), PartNumber |-> i]
       /\ ObjectAt(mp.key) = {Stream(mp.n)}

\* ============================================================ directoryDiff
\* strings.LastIndex(s, c) + 1: the position of the last c in s, 0 without
LastIndex(s, c) ==
    IF \E i \in 1..Len(s) : s[i] = c
    THEN CHOOSE i \in 1..Len(s) : s[i] = c /\ \A j \in (i + 1)..Len(s) : s[j] # c
    ELSE 0

\* s without the separators that follow a separator
RECURSIVE squeeze(_)
squeeze(s) ==
    IF Len(s) < 2 THEN s
    ELSE IF s[1] = "/" /\ s[2] = "/" THEN squeeze(Tail(s))
    ELSE <<s[1]>> \o squeeze(Tail(s))

\* path.Clean on a path without "." and ".." elements
Clean(p) ==
    IF p = << >> THEN <<".">>
    ELSE LET q == squeeze(p)
         IN IF Len(q) > 1 /\ q[Len(q)] = "/" THEN SubSeq(q, 1, Len(q) - 1) ELSE q

\* path.Dir: all but the last element of the path, cleaned
Dir(p) == Clean(SubSeq(p, 1, LastIndex(p, "/")))

\* slices.Reverse
Reverse(s) == [i \in 1..Len(s) |-> s[Len(s) + 1 - i]]

\* the loop of directoryDiff comparing prev and parent as plain strings
RECURSIVE diffLoop_RawPrefix(_, _, _)
diffLoop_RawPrefix(prev, parent, paths) ==
    LET up == Dir(parent)
    IN IF up = <<"/">> \/ up = prev \/ HasPrefix(prev, up)
       THEN paths
       ELSE diffLoop_RawPrefix(prev, up, Append(paths, up))

\* the loop of directoryDiff: climb from current until the root, prev or an
\* ancestor of prev is met
RECURSIVE diffLoop(_, _, _)
diffLoop(prev, parent, paths) ==
    LET up == Dir(parent)
    IN IF up = <<"/">> \/ up = prev \/ HasPrefix(prev \o <<"/">>, up \o <<"/">>)
       THEN paths
       ELSE diffLoop(prev, up, Append(paths, up))

directoryDiff(prev, current) ==
    IF prev = << >> \/ current = << >> THEN << >>
    ELSE Reverse(diffLoop(prev, current, << >>))

\* the paths of the model: absolute, without empty elements, or empty
PathChars == {"/", "a", "b"}
AbsPaths ==
    {p \in UNION {[1..n -> PathChars] : n \in 1..MaxPathLen} :
        p[1] = "/" /\ \A i \in 1..(Len(p) - 1) : ~(p[i] = "/" /\ p[i + 1] = "/")}

DirectoryDiff ==
    /\ walk.op = "args"
    /\ walk' = [walk EXCEPT !.op = "directoryDiff",
                            !.paths = directoryDiff(walk.prev, walk.current)]
    /\ UNCHANGED <<mp, ws, del, loop, opt, rsc, driverVars, sessions, objects, writerVars>>

InitDiff ==
    /\ rootDirectory = << >>
    /\ driverChunkSize = 1
    /\ sessions = << >>
    /\ objects = {}
    /\ NoWriter
    /\ mp = [op |-> "none"]
    /\ ws = [op |-> "none"]
    /\ del = [op |-> "none"]
    /\ loop = [op |-> "none"]
    /\ opt = [op |-> "none"]
    /\ rsc = [op |-> "none"]
    /\ walk \in {[op |-> "args", prev |-> p, current |-> c, paths |-> << >>] :
                    p \in AbsPaths \cup {<< >>}, c \in AbsPaths \cup {<< >>}}

NextDiff == DirectoryDiff

SpecDiff == InitDiff /\ [][NextDiff]_vars

\* the directories above p: what p holds before one of its separators
Ancestors(p) == {SubSeq(p, 1, i - 1) : i \in {j \in 2..Len(p) : p[j] = "/"}}

\* the members of a set of paths from the shortest to the longest
RECURSIVE ByDepth(_)
ByDepth(S) ==
    IF S = {} THEN << >>
    ELSE LET m == CHOOSE x \in S : \A y \in S : Len(x) <= Len(y)
         IN <<m>> \o ByDepth(S \ {m})

\* C20: for absolute prev and current directoryDiff returns, from the
\* shallowest to the deepest, the directories above current that are not the
\* root, not prev and not above prev, where "above" goes by whole path
\* elements; it returns nothing when prev or current is empty.
C20_DirectoryDiff ==
    walk.op = "directoryDiff"
    => IF walk.prev = << >> \/ walk.current = << >>
       THEN walk.paths = << >>
       ELSE walk.paths =
               ByDepth({d \in Ancestors(walk.current) :
                           d # walk.prev /\ d \notin Ancestors(walk.prev)})

C20_Witness ==
    /\ walk.op = "directoryDiff"
    /\ walk.prev = <<"/", "a">>
    /\ walk.current = <<"/", "a", "b", "/", "a">>
    /\ walk.paths = << <<"/", "a", "b">> >>

\* ===================================================================== Walk
\* the characters of the keys in ascending byte order
Alphabet == <<"/", "2", "a", "b", "c", "d", "e", "f", "g", "h", "r">>
Ord(ch) == CHOOSE i \in 1..Len(Alphabet) : Alphabet[i] = ch

\* s sorts before t in the byte order of the store's listings
RECURSIVE Less(_, _)
Less(s, t) ==
    IF t = << >> THEN FALSE
    ELSE IF s = << >> THEN TRUE
    ELSE IF Head(s) # Head(t) THEN Ord(Head(s)) < Ord(Head(t))
    ELSE Less(Tail(s), Tail(t))

RECURSIVE SortKeys(_)
SortKeys(S) ==
    IF S = {} THEN << >>
    ELSE LET m == CHOOSE x \in S : \A y \in S \ {x} : Less(x, y)
         IN <<m>> \o SortKeys(S \ {m})

HasSuffix(s, x) ==
    Len(x) <= Len(s) /\ SubSeq(s, Len(s) - Len(x) + 1, Len(s)) = x

\* strings.Index(s, old) + 1; the empty string is found at the start
Index(s, old) ==
    LET at == {i \in 1..(Len(s) - Len(old) + 1) : SubSeq(s, i, i + Len(old) - 1) = old}
    IN IF at = {} THEN 0 ELSE CHOOSE i \in at : \A j \in at : i <= j

\* strings.Replace(s, old, new, 1)
Replace(s, old, new) ==
    LET i == Index(s, old)
    IN IF i = 0 THEN s
       ELSE SubSeq(s, 1, i - 1) \o new \o SubSeq(s, i + Len(old), Len(s))

\* the object names in the store, as the callers named them
Names ==
    { <<"a">>, <<"b">>, <<"c", "/", "d">>, <<"c", "/", "e">>,
      <<"c", "/", "f", "/">>, <<"c", "/", "f", "/", "g">>,
      <<"c", "/", "f", "/", "h">>, <<"c", "/", "f", "2">> }

\* the roots a walk starts from
Froms == { <<"/">>, <<"/", "c">> }

\* the key the store holds for a name
KeyOf(name) == s3Path(rootDirectory, <<"/">> \o name)

\* ListObjectsV2 with Prefix and StartAfter: the matching keys in byte order
S3ListObjects(names, prefix, startAfter) ==
    SortKeys({k \in {KeyOf(n) : n \in names} :
                 HasPrefix(k, prefix) /\ Less(startAfter, k)})

\* the first loop of the page callback without the update of prevDir
RECURSIVE walkInfosOf_KeepsPrevDir(_, _, _)
walkInfosOf_KeepsPrevDir(contents, prevDir, walkInfos) ==
    IF contents = << >> THEN [walkInfos |-> walkInfos, prevDir |-> prevDir]
    ELSE LET prefix == IF s3Path(rootDirectory, << >>) = << >> THEN <<"/">> ELSE << >>
             filePath == Replace(Head(contents), s3Path(rootDirectory, << >>), prefix)
             dirs == directoryDiff(prevDir, filePath)
             withDirs == walkInfos \o [i \in 1..Len(dirs) |->
                                          [isDir |-> TRUE, path |-> dirs[i]]]
         IN walkInfosOf_KeepsPrevDir(Tail(contents), prevDir,
                        IF HasSuffix(filePath, <<"/">>) THEN withDirs
                        ELSE Append(withDirs, [isDir |-> FALSE, path |-> filePath]))

\* the first loop of the page callback without the test for a trailing
\* separator: a directory marker is delivered as a file too
RECURSIVE walkInfosOf_MarkerAsFile(_, _, _)
walkInfosOf_MarkerAsFile(contents, prevDir, walkInfos) ==
    IF contents = << >> THEN [walkInfos |-> walkInfos, prevDir |-> prevDir]
    ELSE LET prefix == IF s3Path(rootDirectory, << >>) = << >> THEN <<"/">> ELSE << >>
             filePath == Replace(Head(contents), s3Path(rootDirectory, << >>), prefix)
             dirs == directoryDiff(prevDir, filePath)
             withDirs == walkInfos \o [i \in 1..Len(dirs) |->
                                          [isDir |-> TRUE, path |-> dirs[i]]]
         IN walkInfosOf_MarkerAsFile(Tail(contents),
                        IF dirs = << >> THEN prevDir ELSE dirs[Len(dirs)],
                        Append(withDirs, [isDir |-> FALSE, path |-> filePath]))

\* the first loop of the page callback: the entries of a page, the inferred
\* directories before the file that revealed them, and prevDir afterwards
RECURSIVE walkInfosOf(_, _, _)
walkInfosOf(contents, prevDir, walkInfos) ==
    IF contents = << >> THEN [walkInfos |-> walkInfos, prevDir |-> prevDir]
    ELSE LET prefix == IF s3Path(rootDirectory, << >>) = << >> THEN <<"/">> ELSE << >>
             filePath == Replace(Head(contents), s3Path(rootDirectory, << >>), prefix)
             dirs == directoryDiff(prevDir, filePath)
             withDirs == walkInfos \o [i \in 1..Len(dirs) |->
                                          [isDir |-> TRUE, path |-> dirs[i]]]
         IN walkInfosOf(Tail(contents),
                        IF dirs = << >> THEN prevDir ELSE dirs[Len(dirs)],
                        IF HasSuffix(filePath, <<"/">>) THEN withDirs
                        ELSE Append(withDirs, [isDir |-> FALSE, path |-> filePath]))

\* the end of the page callback's second loop: the walk goes on with the
\* next page unless this was the last one
pageDone(w) ==
    IF w.walkInfos = << >> /\ w.lastPage
    THEN [w EXCEPT !.op = "return", !.ret = "nil"]
    ELSE w

\* ListPage returning nil from the walk when the listing fails
ListPage_SwallowsError(n, ok) ==
    /\ walk.op = "Walk"
    /\ walk.walkInfos = << >>
    /\ ~walk.lastPage
    /\ IF ~ok
       THEN walk' = [walk EXCEPT !.op = "return", !.ret = "nil", !.pages = @ + 1]
       ELSE LET to == Min(walk.next + n - 1, Len(walk.keys))
                r == walkInfosOf(SubSeq(walk.keys, walk.next, to), walk.prevDir, << >>)
            IN walk' = pageDone([walk EXCEPT !.next = to + 1,
                                             !.pages = @ + 1,
                                             !.lastPage = (to = Len(walk.keys)),
                                             !.walkInfos = r.walkInfos,
                                             !.prevDir = r.prevDir])
    /\ UNCHANGED <<mp, ws, del, loop, opt, rsc, driverVars, sessions, objects, writerVars>>

\* ListPage starting every page from the walk root instead of prevDir
ListPage_ForgetsPrevDir(n, ok) ==
    /\ walk.op = "Walk"
    /\ walk.walkInfos = << >>
    /\ ~walk.lastPage
    /\ IF ~ok
       THEN walk' = [walk EXCEPT !.op = "return", !.ret = "list error",
                                 !.pages = @ + 1]
       ELSE LET to == Min(walk.next + n - 1, Len(walk.keys))
                r == walkInfosOf(SubSeq(walk.keys, walk.next, to), walk.from, << >>)
            IN walk' = pageDone([walk EXCEPT !.next = to + 1,
                                             !.pages = @ + 1,
                                             !.lastPage = (to = Len(walk.keys)),
                                             !.walkInfos = r.walkInfos,
                                             !.prevDir = r.prevDir])
    /\ UNCHANGED <<mp, ws, del, loop, opt, rsc, driverVars, sessions, objects, writerVars>>

\* the store hands the next page of at most n keys to the page callback,
\* or the listing fails
ListPage(n, ok) ==
    /\ walk.op = "Walk"
    /\ walk.walkInfos = << >>
    /\ ~walk.lastPage
    /\ IF ~ok
       THEN walk' = [walk EXCEPT !.op = "return", !.ret = "list error",
                                 !.pages = @ + 1]
       ELSE LET to == Min(walk.next + n - 1, Len(walk.keys))
                r == walkInfosOf(SubSeq(walk.keys, walk.next, to), walk.prevDir, << >>)
            IN walk' = pageDone([walk EXCEPT !.next = to + 1,
                                             !.pages = @ + 1,
                                             !.lastPage = (to = Len(walk.keys)),
                                             !.walkInfos = r.walkInfos,
                                             !.prevDir = r.prevDir])
    /\ UNCHANGED <<mp, ws, del, loop, opt, rsc, driverVars, sessions, objects, writerVars>>

\* the next entry lies under the last skipped path and is passed over
Suppress ==
    /\ walk.op = "Walk"
    /\ walk.walkInfos # << >>
    /\ walk.prevSkipDir # << >>
    /\ HasPrefix(Head(walk.walkInfos).path, walk.prevSkipDir)
    /\ walk' = pageDone([walk EXCEPT !.walkInfos = Tail(@)])
    /\ UNCHANGED <<mp, ws, del, loop, opt, rsc, driverVars, sessions, objects, writerVars>>

\* the callback step taking the stop signal and an error for a continue
Callback_GoesOn(err) ==
    /\ walk.op = "Walk"
    /\ walk.walkInfos # << >>
    /\ ~(walk.prevSkipDir # << >>
         /\ HasPrefix(Head(walk.walkInfos).path, walk.prevSkipDir))
    /\ err = "ErrSkipDir" => walk.skips < MaxSkips
    /\ LET walkInfo == Head(walk.walkInfos)
           called == [walk EXCEPT !.calls = Append(@, [isDir |-> walkInfo.isDir,
                                                       path |-> walkInfo.path,
                                                       err |-> err])]
       IN walk' =
            IF err = "ErrSkipDir"
            THEN pageDone([called EXCEPT !.walkInfos = Tail(@),
                                         !.prevSkipDir = walkInfo.path,
                                         !.skips = @ + 1])
            ELSE pageDone([called EXCEPT !.walkInfos = Tail(@)])
    /\ UNCHANGED <<mp, ws, del, loop, opt, rsc, driverVars, sessions, objects, writerVars>>

\* f(walkInfo) is called for the next entry and returns err
Callback(err) ==
    /\ walk.op = "Walk"
    /\ walk.walkInfos # << >>
    /\ ~(walk.prevSkipDir # << >>
         /\ HasPrefix(Head(walk.walkInfos).path, walk.prevSkipDir))
    /\ err = "ErrSkipDir" => walk.skips < MaxSkips
    /\ LET walkInfo == Head(walk.walkInfos)
           called == [walk EXCEPT !.calls = Append(@, [isDir |-> walkInfo.isDir,
                                                       path |-> walkInfo.path,
                                                       err |-> err])]
       IN walk' =
            IF err = "nil"
            THEN pageDone([called EXCEPT !.walkInfos = Tail(@)])
            ELSE IF err = "ErrSkipDir"
            THEN pageDone([called EXCEPT !.walkInfos = Tail(@),
                                         !.prevSkipDir = walkInfo.path,
                                         !.skips = @ + 1])
            ELSE IF err = "ErrFilledBuffer"
            THEN [called EXCEPT !.op = "return", !.ret = "nil"]
            ELSE [called EXCEPT !.op = "return", !.ret = err]
    /\ UNCHANGED <<mp, ws, del, loop, opt, rsc, driverVars, sessions, objects, writerVars>>

\* the state when s.Walk(ctx, from, f) enters doWalk
InitWalk ==
    /\ rootDirectory \in Roots
    /\ driverChunkSize = 1
    /\ sessions = << >>
    /\ objects = {}
    /\ NoWriter
    /\ mp = [op |-> "none"]
    /\ ws = [op |-> "none"]
    /\ del = [op |-> "none"]
    /\ loop = [op |-> "none"]
    /\ opt = [op |-> "none"]
    /\ rsc = [op |-> "none"]
    /\ walk \in {[op |-> "Walk", from |-> from, names |-> names,
                  keys |-> S3ListObjects(names,
                              s3Path(rootDirectory,
                                     IF HasSuffix(from, <<"/">>) THEN from
                                     ELSE from \o <<"/">>),
                              s3Path(rootDirectory, << >>)),
                  next |-> 1, pages |-> 0, lastPage |-> FALSE,
                  walkInfos |-> << >>, prevDir |-> from, prevSkipDir |-> << >>,
                  skips |-> 0, calls |-> << >>, ret |-> ""] :
                    from \in Froms, names \in SUBSET Names}

NextWalk ==
    \/ \E n \in 1..MaxPage, ok \in BOOLEAN : ListPage(n, ok)
    \/ Suppress
    \/ \E err \in {"nil", "ErrSkipDir", "ErrFilledBuffer", "error"} : Callback(err)

SpecWalk == InitWalk /\ [][NextWalk]_vars

\* a walk from "/" that returned nil after a callback that always continued
WalkedAll ==
    /\ walk.op = "return"
    /\ walk.ret = "nil"
    /\ walk.from = <<"/">>
    /\ \A i \in 1..Len(walk.calls) : walk.calls[i].err = "nil"

\* the names that are objects, not directory markers, in listing order
FilesOf(names) ==
    LET sorted == SortKeys({n \in names : ~HasSuffix(n, <<"/">>)})
    IN [i \in 1..Len(sorted) |-> <<"/">> \o sorted[i]]

\* the directories that hold one of the names
DirsOf(names) == UNION {Ancestors(<<"/">> \o n) : n \in names}

\* C19: a walk of a sorted listing from "/" whose callback always continues
\* delivers every file once, in listing order, every directory that holds a
\* listed key once, and a directory before every entry beneath it.
C19_WalkOrder ==
    WalkedAll
    => LET files == SelectSeq(walk.calls, LAMBDA c : ~c.isDir)
           dirs == SelectSeq(walk.calls, LAMBDA c : c.isDir)
       IN /\ [i \in 1..Len(files) |-> files[i].path] = FilesOf(walk.names)
          /\ {dirs[i].path : i \in 1..Len(dirs)} = DirsOf(walk.names)
          /\ Len(dirs) = Cardinality(DirsOf(walk.names))
          /\ \A i, j \in 1..Len(walk.calls) :
                (/\ walk.calls[i].isDir
                 /\ i # j
                 /\ HasPrefix(walk.calls[j].path, walk.calls[i].path \o <<"/">>))
                => i < j

C19_Witness ==
    /\ WalkedAll
    /\ walk.pages = 3
    /\ walk.names = { <<"a">>, <<"b">>, <<"c", "/", "d">>, <<"c", "/", "e">>,
                      <<"c", "/", "f", "/", "g">>, <<"c", "/", "f", "/", "h">> }
    /\ [i \in 1..Len(walk.calls) |-> <<walk.calls[i].isDir, walk.calls[i].path>>]
       = << <<FALSE, <<"/", "a">> >>,
            <<FALSE, <<"/", "b">> >>,
            <<TRUE, <<"/", "c">> >>,
            <<FALSE, <<"/", "c", "/", "d">> >>,
            <<FALSE, <<"/", "c", "/", "e">> >>,
            <<TRUE, <<"/", "c", "/", "f">> >>,
            <<FALSE, <<"/", "c", "/", "f", "/", "g">> >>,
            <<FALSE, <<"/", "c", "/", "f", "/", "h">> >> >>

\* the entries of the whole listing, as one page would produce them
AllInfos == walkInfosOf(walk.keys, walk.from, << >>).walkInfos

\* path p lies under directory d
Under(p, d) == HasPrefix(p, d \o <<"/">>)

\* the directories for which the callback returned the skip signal
SkippedDirs ==
    {walk.calls[i].path : i \in {j \in 1..Len(walk.calls) :
        walk.calls[j].isDir /\ walk.calls[j].err = "ErrSkipDir"}}

\* the walk returned nil at the end of the listing, and the callback
\* continued on every entry except for skip signals on directories
WalkedWithDirSkips ==
    /\ walk.op = "return"
    /\ walk.ret = "nil"
    /\ \A i \in 1..Len(walk.calls) :
          \/ walk.calls[i].err = "nil"
          \/ walk.calls[i].err = "ErrSkipDir" /\ walk.calls[i].isDir

\* what the callback was called with, in order
Delivered == [i \in 1..Len(walk.calls) |->
                 [isDir |-> walk.calls[i].isDir, path |-> walk.calls[i].path]]

\* no call after a skip signal for directory D has a path under D
NoCallUnderSkipped ==
    \A i, j \in 1..Len(walk.calls) :
        (/\ i < j
         /\ walk.calls[i].isDir
         /\ walk.calls[i].err = "ErrSkipDir")
        => ~Under(walk.calls[j].path, walk.calls[i].path)

\* C21: after the skip signal for a directory D the callback is not called
\* again with an entry under D, on this page or a later one, and the walk
\* goes on with the entries outside D: what was delivered is the listing's
\* entries without those under a skipped directory.
C21_SkipSuppressesSubtree ==
    /\ NoCallUnderSkipped
    /\ WalkedWithDirSkips
          => Delivered = SelectSeq(AllInfos,
                            LAMBDA e : \A d \in SkippedDirs : ~Under(e.path, d))

\* C29: a skip signal for directory D suppresses only entries under D: every
\* entry of the listing whose path is not D followed by the separator and
\* more, a sibling such as /c/f2 after skipping /c/f included, is delivered.
C29_SkipSparesSiblings ==
    WalkedWithDirSkips
    => \A k \in 1..Len(AllInfos) :
          (\A d \in SkippedDirs : ~Under(AllInfos[k].path, d))
          => \E j \in 1..Len(walk.calls) : Delivered[j] = AllInfos[k]

\* the callback returned err in one of its calls
Returned(w, err) == \E i \in 1..Len(w.calls) : w.calls[i].err = err

\* the callback returned err in its latest call and in no call before
JustReturned(w, err) ==
    /\ w.calls # << >>
    /\ w.calls[Len(w.calls)].err = err
    /\ \A i \in 1..(Len(w.calls) - 1) : w.calls[i].err # err

\* C22: when the callback returns the stop signal, Walk returns nil, and
\* from then on the callback is not called and no page is requested.
C22_StopEndsWalk ==
    [][/\ JustReturned(walk', "ErrFilledBuffer")
          => walk'.op = "return" /\ walk'.ret = "nil"
       /\ Returned(walk, "ErrFilledBuffer")
          => walk'.calls = walk.calls /\ walk'.pages = walk.pages]_vars

C22_Witness ==
    /\ JustReturned(walk, "ErrFilledBuffer")
    /\ walk.op = "return"
    /\ walk.ret = "nil"
    /\ Len(walk.walkInfos) >= 2
    /\ ~walk.lastPage

\* a step in which the listing request failed
ListingFails == walk'.pages = walk.pages + 1 /\ walk'.next = walk.next /\ ~walk'.lastPage

\* C23: when the callback returns an error that is neither signal, Walk
\* returns that error and from then on the callback is not called and no
\* page is requested; when the listing fails and the callback returned no
\* error, Walk returns the listing error.
C23_ErrorEndsWalk ==
    [][/\ JustReturned(walk', "error")
          => walk'.op = "return" /\ walk'.ret = walk'.calls[Len(walk'.calls)].err
       /\ Returned(walk, "error")
          => walk'.calls = walk.calls /\ walk'.pages = walk.pages
       /\ (ListingFails /\ ~Returned(walk, "error"))
          => walk'.op = "return" /\ walk'.ret = "list error"]_vars

C23_Witness ==
    /\ JustReturned(walk, "error")
    /\ walk.op = "return"
    /\ walk.ret = "error"
    /\ Len(walk.walkInfos) >= 2
    /\ ~walk.lastPage
    /\ walk.skips = 1

\* the walk over the whole listing as a single page, the callback answering
\* its calls with the given answers in turn; open when it waits for an answer
RECURSIVE onePage(_, _, _, _)
onePage(infos, prevSkipDir, answers, calls) ==
    IF infos = << >> THEN [calls |-> calls, ret |-> "nil", open |-> FALSE]
    ELSE IF prevSkipDir # << >> /\ HasPrefix(Head(infos).path, prevSkipDir)
    THEN onePage(Tail(infos), prevSkipDir, answers, calls)
    ELSE IF answers = << >> THEN [calls |-> calls, ret |-> "", open |-> TRUE]
    ELSE LET err == Head(answers)
             called == Append(calls, [isDir |-> Head(infos).isDir,
                                      path |-> Head(infos).path, err |-> err])
         IN IF err = "nil"
            THEN onePage(Tail(infos), prevSkipDir, Tail(answers), called)
            ELSE IF err = "ErrSkipDir"
            THEN onePage(Tail(infos), Head(infos).path, Tail(answers), called)
            ELSE [calls |-> called,
                  ret |-> IF err = "ErrFilledBuffer" THEN "nil" ELSE err,
                  open |-> FALSE]

\* C24: whatever the callback answers per entry and however the listing is
\* split into pages, the calls made and the value Walk returns are those of
\* the walk over a single page holding all keys.
C24_PagingTransparent ==
    walk.ret # "list error"
    => LET one == onePage(AllInfos, << >>,
                          [i \in 1..Len(walk.calls) |-> walk.calls[i].err], << >>)
       IN /\ one.calls = walk.calls
          /\ walk.op = "return" => ~one.open /\ one.ret = walk.ret

C24_Witness ==
    /\ walk.op = "return"
    /\ walk.pages = 3
    /\ walk.skips = 1
    /\ Len(walk.calls) >= 4
    /\ walk.calls[2].err = "ErrSkipDir"
    /\ walk.calls[Len(walk.calls)].err = "error"

\* ------------------------------------------- writers sharing the pool
\* ws.free[b]: how many times the pool holds buffer b; ws.w[i]: writer i
\* with its buffer and flags; ws.touch: the last access to a buffer, the
\* writer that made it, whether that writer was closed when its call began
\* and whether another writer that is not closed held the same buffer;
\* ws.ret: the last call and its error

\* writer.done on writer w
doneOf(w) ==
    IF w.closed THEN "already closed"
    ELSE IF w.committed THEN "already committed"
    ELSE IF w.cancelled THEN "already cancelled"
    ELSE ""

\* sync.Pool.Get: one of the buffers the pool holds, or one made by New
PoolGet(free) == {b \in 1..Len(free) : free[b] > 0} \cup {Len(free) + 1}

\* an access of writer i to its buffer
Touch(i) ==
    [w |-> i, buf |-> ws.w[i].buf, closed |-> ws.w[i].closed,
     shared |-> \E j \in 1..Len(ws.w) :
                    j # i /\ ~ws.w[j].closed /\ ws.w[j].buf = ws.w[i].buf]

PoolRet(i, call, err) == [w |-> i, call |-> call, err |-> err]

PoolFrame == UNCHANGED <<mp, walk, del, loop, opt, rsc, driverVars, sessions, objects, writerVars>>

\* newWriter: a writer takes its buffer from the pool
PoolNewWriter ==
    /\ Len(ws.w) < MaxWriters
    /\ \E b \in PoolGet(ws.free) :
         ws' = [ws EXCEPT
                  !.free = IF b > Len(ws.free) THEN Append(ws.free, 0)
                           ELSE [ws.free EXCEPT ![b] = @ - 1],
                  !.w = Append(ws.w, [buf |-> b, closed |-> FALSE,
                                      committed |-> FALSE, cancelled |-> FALSE]),
                  !.ret = PoolRet(Len(ws.w) + 1, "newWriter", "")]
    /\ PoolFrame

\* writer.Write of writer i: the buffer is written and flushed
PoolWrite(i) ==
    /\ LET err == doneOf(ws.w[i])
       IN ws' = IF err # "" THEN [ws EXCEPT !.ret = PoolRet(i, "Write", err)]
                ELSE [ws EXCEPT !.touch = Touch(i),
                                !.ret = PoolRet(i, "Write", "")]
    /\ PoolFrame

\* writer.Commit of writer i: the buffer is flushed; ok: whether flush succeeds
PoolCommit(i, ok) ==
    /\ LET err == doneOf(ws.w[i])
       IN ws' = IF err # "" THEN [ws EXCEPT !.ret = PoolRet(i, "Commit", err)]
                ELSE IF ~ok
                THEN [ws EXCEPT !.touch = Touch(i),
                                !.ret = PoolRet(i, "Commit", "upload part")]
                ELSE [ws EXCEPT !.touch = Touch(i),
                                !.w[i].committed = TRUE,
                                !.ret = PoolRet(i, "Commit", "")]
    /\ PoolFrame

\* writer.Cancel of writer i: the buffer is left alone
PoolCancel(i) ==
    /\ LET err == doneOf(ws.w[i])
       IN ws' = IF err # "" THEN [ws EXCEPT !.ret = PoolRet(i, "Cancel", err)]
                ELSE [ws EXCEPT !.w[i].cancelled = TRUE,
                                !.ret = PoolRet(i, "Cancel", "")]
    /\ PoolFrame

\* a Close that releases the buffer whether or not the writer was closed
PoolClose_ReleasesAgain(i) ==
    /\ ws' = [ws EXCEPT !.w[i].closed = TRUE,
                        !.touch = Touch(i),
                        !.free[ws.w[i].buf] = @ + 1,
                        !.ret = PoolRet(i, "Close", "")]
    /\ PoolFrame

\* writer.Close of writer i with its deferred releaseBuffer: Reset, then Put
PoolClose(i) ==
    /\ ws' = IF ws.w[i].closed
             THEN [ws EXCEPT !.ret = PoolRet(i, "Close", "already closed")]
             ELSE [ws EXCEPT !.w[i].closed = TRUE,
                             !.touch = Touch(i),
                             !.free[ws.w[i].buf] = @ + 1,
                             !.ret = PoolRet(i, "Close", "")]
    /\ PoolFrame

InitPool ==
    /\ rootDirectory \in Roots
    /\ driverChunkSize \in ChunkSizes
    /\ sessions = << >>
    /\ objects = {}
    /\ NoWriter
    /\ mp = [op |-> "none"]
    /\ walk = [op |-> "none"]
    /\ del = [op |-> "none"]
    /\ loop = [op |-> "none"]
    /\ opt = [op |-> "none"]
    /\ rsc = [op |-> "none"]
    /\ ws = [op |-> "pool", free |-> << >>, w |-> << >>,
             touch |-> [w |-> 0, buf |-> 0, closed |-> FALSE, shared |-> FALSE],
             ret |-> PoolRet(0, "NewSSS", "")]

NextPool ==
    \/ PoolNewWriter
    \/ \E i \in 1..Len(ws.w) : PoolWrite(i)
    \/ \E i \in 1..Len(ws.w), ok \in BOOLEAN : PoolCommit(i, ok)
    \/ \E i \in 1..Len(ws.w) : PoolCancel(i)
    \/ \E i \in 1..Len(ws.w) : PoolClose(i)

SpecPool == InitPool /\ [][NextPool]_vars

\* C25: whatever the interleaving of creation, Write, Commit, Cancel and
\* Close over writers of one pool, no buffer belongs to two writers that are
\* not closed, the pool does not hold the buffer of a writer that is not
\* closed, and every access to a buffer was made by a writer that was not
\* closed when its call began
C25_BufferOwnership ==
    /\ \A i, j \in 1..Len(ws.w) :
         i # j /\ ~ws.w[i].closed /\ ~ws.w[j].closed => ws.w[i].buf # ws.w[j].buf
    /\ \A i \in 1..Len(ws.w) : ~ws.w[i].closed => ws.free[ws.w[i].buf] = 0
    /\ ws.touch.w # 0 => ~ws.touch.closed /\ ~ws.touch.shared

\* the buffer of the closed writer 1 serves writer 2, which used it, and a
\* Write of writer 1 after its Close was turned away
C25_Witness ==
    /\ Len(ws.w) = 2
    /\ ws.w[1].closed /\ ~ws.w[2].closed
    /\ ws.w[2].buf = ws.w[1].buf
    /\ ws.touch.w = 2
    /\ ws.ret = PoolRet(1, "Write", "already closed")

\* ------------------------------------------------------- DeleteAll
\* the paths DeleteAll is called with
DeleteFroms == Froms \cup { <<"/", "c", "/", "f">> }

\* the store holding one object per name
ObjectsOf(names) == {[Key |-> KeyOf(n), Body |-> << >>] : n \in names}

\* SSS.DeleteBatch: one DeleteObjects request per listMax paths; ok: whether
\* the store carries the requests out
RECURSIVE DeleteBatch(_, _, _, _)
DeleteBatch(objs, paths, ok, calls) ==
    IF paths = << >> THEN [objects |-> objs, err |-> "nil", calls |-> calls]
    ELSE LET end == Min(listMax, Len(paths))
             s3Objects == [i \in 1..end |-> s3Path(rootDirectory, paths[i])]
             sent == Append(calls, s3Objects)
         IN IF ~ok THEN [objects |-> objs, err |-> "delete objects", calls |-> sent]
            ELSE DeleteBatch({o \in objs : \A i \in 1..end : o.Key # s3Objects[i]},
                             SubSeq(paths, end + 1, Len(paths)), ok, sent)

\* the callback DeleteAll hands to Walk, called for the next entry: a file
\* joins the batch, and a batch of listMax paths is sent
DeleteAllFn(ok) ==
    /\ del.op = "DeleteAll"
    /\ walk.op = "Walk"
    /\ walk.walkInfos # << >>
    /\ LET fileInfo == Head(walk.walkInfos)
           batch == IF fileInfo.isDir THEN del.batch
                    ELSE Append(del.batch, fileInfo.path)
           full == ~fileInfo.isDir /\ Len(batch) = listMax
           r == IF full THEN DeleteBatch(objects, batch, ok, << >>)
                ELSE [objects |-> objects, err |-> "nil", calls |-> << >>]
           called == [walk EXCEPT !.calls = Append(@, [isDir |-> fileInfo.isDir,
                                                       path |-> fileInfo.path,
                                                       err |-> r.err])]
       IN /\ ok \/ full
          /\ objects' = r.objects
          /\ del' = [del EXCEPT !.batch = IF full /\ r.err = "nil" THEN << >> ELSE batch,
                                !.batches = @ \o r.calls]
          /\ walk' = IF r.err = "nil"
                     THEN pageDone([called EXCEPT !.walkInfos = Tail(@)])
                     ELSE [called EXCEPT !.op = "return", !.ret = r.err]
    /\ UNCHANGED <<mp, ws, loop, opt, rsc, driverVars, sessions, writerVars>>

\* DeleteAll after Walk returned: the error of the walk, or the rest of the
\* batch is sent
DeleteAllReturn(ok) ==
    /\ del.op = "DeleteAll"
    /\ walk.op = "return"
    /\ LET r == IF walk.ret = "nil" /\ Len(del.batch) > 0
                THEN DeleteBatch(objects, del.batch, ok, << >>)
                ELSE [objects |-> objects, err |-> walk.ret, calls |-> << >>]
       IN /\ ok \/ r.calls # << >>
          /\ objects' = r.objects
          /\ del' = [del EXCEPT !.op = "return", !.err = r.err,
                                !.batches = @ \o r.calls]
    /\ UNCHANGED <<mp, ws, walk, loop, opt, rsc, driverVars, sessions, writerVars>>

InitDelete ==
    /\ rootDirectory \in Roots
    /\ driverChunkSize = 1
    /\ sessions = << >>
    /\ NoWriter
    /\ mp = [op |-> "none"]
    /\ ws = [op |-> "none"]
    /\ del = [op |-> "DeleteAll", batch |-> << >>, batches |-> << >>, err |-> ""]
    /\ loop = [op |-> "none"]
    /\ opt = [op |-> "none"]
    /\ rsc = [op |-> "none"]
    /\ \E from \in DeleteFroms, names \in SUBSET Names :
         /\ objects = ObjectsOf(names)
         /\ walk = [op |-> "Walk", from |-> from, names |-> names,
                    keys |-> S3ListObjects(names,
                                s3Path(rootDirectory,
                                       IF HasSuffix(from, <<"/">>) THEN from
                                       ELSE from \o <<"/">>),
                                s3Path(rootDirectory, << >>)),
                    next |-> 1, pages |-> 0, lastPage |-> FALSE,
                    walkInfos |-> << >>, prevDir |-> from, prevSkipDir |-> << >>,
                    skips |-> 0, calls |-> << >>, ret |-> ""]

NextDelete ==
    \/ \E n \in 1..MaxPage, ok \in BOOLEAN : ListPage(n, ok)
    \/ \E ok \in BOOLEAN : DeleteAllFn(ok)
    \/ \E ok \in BOOLEAN : DeleteAllReturn(ok)

SpecDelete == InitDelete /\ [][NextDelete]_vars

\* the key prefix of the directory DeleteAll was called with
DeletedPrefix ==
    s3Path(rootDirectory,
           IF HasSuffix(walk.from, <<"/">>) THEN walk.from ELSE walk.from \o <<"/">>)

\* the file entries a walk from the root delivers for a store with these keys
FilesWalked(keys) ==
    LET infos == walkInfosOf(SortKeys(keys), <<"/">>, << >>).walkInfos
    IN SelectSeq(infos, LAMBDA e : ~e.isDir)

\* the keys handed to delete requests, in the order they were sent
RECURSIVE Flatten(_)
Flatten(ss) == IF ss = << >> THEN << >> ELSE Head(ss) \o Flatten(Tail(ss))

\* the files the callback of DeleteAll was called with, as keys
FilesFound ==
    LET files == SelectSeq(walk.calls, LAMBDA c : ~c.isDir)
    IN [i \in 1..Len(files) |-> s3Path(rootDirectory, files[i].path)]

\* C26: after DeleteAll(p) returned without error no key under p is left,
\* the objects outside p are the ones stored before, the files a following
\* walk delivers are the previous ones that are not under p, every file
\* the walk found was handed to a delete request exactly once and no
\* request names more than listMax keys
C26_DeleteAll ==
    del.op = "return" /\ del.err = "nil"
    => LET before == {KeyOf(n) : n \in walk.names}
           after == {o.Key : o \in objects}
       IN /\ \A k \in after : ~HasPrefix(k, DeletedPrefix)
          /\ objects = {o \in ObjectsOf(walk.names) : ~HasPrefix(o.Key, DeletedPrefix)}
          /\ FilesWalked(after)
               = SelectSeq(FilesWalked(before),
                           LAMBDA e : ~HasPrefix(s3Path(rootDirectory, e.path),
                                                 DeletedPrefix))
          /\ Flatten(del.batches) = FilesFound
          /\ \A i \in 1..Len(del.batches) : Len(del.batches[i]) <= listMax

\* DeleteAll returns nil only after the delete requests name exactly the
\* files found, none above listMax keys, keys outside p staying
DeleteAllDeletesFiles ==
    del.op = "return" /\ del.err = "nil"
    => /\ \A o \in objects : HasPrefix(o.Key, DeletedPrefix) => HasSuffix(o.Key, <<"/">>)
       /\ \A o \in ObjectsOf(walk.names) : ~HasPrefix(o.Key, DeletedPrefix) => o \in objects
       /\ Flatten(del.batches) = FilesFound
       /\ \A i \in 1..Len(del.batches) : Len(del.batches[i]) <= listMax

\* ------------------------------------- handles of an uploading session
\* the part numbers the store held when OrderParts was evaluated
StoredNumbers == {p.PartNumber : p \in mp.ordered.stored}

\* C27: OrderParts on a fresh handle, evaluated at any moment of concurrent
\* uploads of distinct part numbers in any order, returns parts 1..K without
\* a gap, all of the size of the first, each one stored at that moment with
\* this content; a stored part above an open gap is not in the result
C27_OrderPartsDuringUpload ==
    (mp.op \in {"NewMultipart", "UploadPart", "Commit"} /\ mp.ordered.err = "")
    => LET ps == mp.ordered.parts
       IN /\ \A i \in 1..Len(ps) :
                /\ ps[i].PartNumber = i
                /\ ps[i].Size = ps[1].Size
                /\ [PartNumber |-> i, Body |-> ps[i].ETag] \in mp.ordered.stored
          /\ \A n \in StoredNumbers :
                (\E g \in 1..(n - 1) : g \notin StoredNumbers) => n > Len(ps)

\* OrderParts returned part 1 while part 3 was stored and part 2 was not,
\* its upload still on its way
C27_Witness ==
    /\ mp.op = "UploadPart"
    /\ mp.ordered.err = ""
    /\ Len(mp.ordered.parts) = 1
    /\ StoredNumbers = {1, 3}
    /\ mp.up[2] = "sent"

\* C30: the completion request of Multipart.Commit names every part the
\* store holds for the session when Commit is called (no part number was
\* uploaded twice, so none is conflicted), also when AllParts or OrderParts
\* ran on the handle before further UploadPart calls
C30_CommitNamesStoredParts ==
    (mp.op = "Commit" /\ mp.req # << >>)
    => {[PartNumber |-> mp.req[i].PartNumber, Body |-> mp.req[i].ETag] :
            i \in 1..Len(mp.req)} = sessions[mp.uploadID].Parts

\* without AllParts or OrderParts on the handle before Commit the request
\* names every stored part
CommitAfterResumeNamesStoredParts ==
    (mp.op = "Commit" /\ mp.req # << >> /\ ~mp.cached)
    => {[PartNumber |-> mp.req[i].PartNumber, Body |-> mp.req[i].ETag] :
            i \in 1..Len(mp.req)} = sessions[mp.uploadID].Parts

\* -------------------------------------------- Commit, then Cancel
\* this step is a Cancel that sends the abort request for the writer's session
CancelAborts ==
    /\ last'.op = "Cancel"
    /\ \E i \in 1..Len(last'.calls) :
          /\ last'.calls[i].call = "AbortMultipartUpload"
          /\ last'.calls[i].Key = key
          /\ last'.calls[i].UploadId = uploadID

\* C28: when Commit, called on a writer that was not finalized, returned an
\* error, the Cancel that follows on this writer sends the abort request
\* for the writer's session
C28_CancelAfterFailedCommit ==
    [][(last.op = "Commit" /\ ~PreDone /\ last.err # "" /\ ~closed
        /\ last'.op = "Cancel") => CancelAborts]_vars

\* after a Commit that failed in its flush, Cancel sends the abort request
CancelAfterFailedFlush ==
    [][(last.op = "Commit" /\ ~PreDone /\ last.err # "" /\ ~committed /\ ~closed
        /\ last'.op = "Cancel") => CancelAborts]_vars

\* ------------------------------------------- the flush loop of Write
\* WithChunkSize takes any integer and NewSSS keeps it as it is
AnyChunkSizes == (0 - 1)..MaxChunk

WriteLoopFrame ==
    UNCHANGED <<mp, walk, ws, del, opt, rsc, driverVars, pool, objects,
                writerConst, closed, committed, cancelled, hist, last>>

\* Write(p) up to its loop: done() passes and p is appended to the buffer
WriteBegin(len) ==
    /\ loop.op \in {"Writer", "return"}
    /\ pos + len <= MaxData
    /\ done = ""
    /\ buf' = buf \o [i \in 1..len |-> pos + i]
    /\ pos' = pos + len
    /\ loop' = [op |-> "loop", n |-> len, err |-> "", flushes |-> 0]
    /\ UNCHANGED <<sessions, parts, size>>
    /\ WriteLoopFrame

\* one turn of `for w.buf.Len() >= w.chunkSize`: the loop ends, or flush is
\* called; flush returns at once on an empty buffer, bytes.Buffer.Next
\* panics on a negative count, and the store accepts the part or not (ok);
\* the count of flushes and the number of parts stop at MaxData + 1
WriteTurn(ok) ==
    /\ loop.op = "loop"
    /\ IF Len(buf) < chunkSize
       THEN /\ loop' = [loop EXCEPT !.op = "return", !.err = ""]
            /\ UNCHANGED <<sessions, parts, size, buf, pos>>
       ELSE IF Len(buf) = 0
       THEN /\ loop' = [loop EXCEPT !.flushes = Min(@ + 1, MaxData + 1)]
            /\ UNCHANGED <<sessions, parts, size, buf, pos>>
       ELSE IF chunkSize < 0
       THEN /\ loop' = [loop EXCEPT !.op = "panic"]
            /\ UNCHANGED <<sessions, parts, size, buf, pos>>
       ELSE /\ Len(parts) <= MaxData
            /\ LET c == flush(Cur, ok)
               IN /\ parts' = c.parts
                  /\ size' = c.size
                  /\ buf' = c.buf
                  /\ sessions' = [sessions EXCEPT ![uploadID] = c.sess]
                  /\ loop' = IF c.err # ""
                             THEN [loop EXCEPT !.op = "return", !.err = "flush",
                                               !.n = 0,
                                               !.flushes = Min(@ + 1, MaxData + 1)]
                             ELSE [loop EXCEPT !.flushes = Min(@ + 1, MaxData + 1)]
            /\ UNCHANGED pos
    /\ WriteLoopFrame

\* the state after NewSSS(WithChunkSize(c)) and s.Writer(ctx, Path)
InitWriteLoop ==
    /\ rootDirectory \in Roots
    /\ driverChunkSize \in AnyChunkSizes
    /\ pool = 0
    /\ key = s3Path(rootDirectory, Path)
    /\ uploadID = 1
    /\ sessions = <<[Key |-> key, State |-> "open", Parts |-> {}]>>
    /\ objects = {}
    /\ parts = << >>
    /\ size = 0
    /\ buf = << >>
    /\ chunkSize = driverChunkSize
    /\ closed = FALSE
    /\ committed = FALSE
    /\ cancelled = FALSE
    /\ pos = 0
    /\ hist = [writers |-> 1, resumed |-> FALSE, clean |-> TRUE, k |-> 0,
               puts |-> 0, completes |-> 0, aborts |-> 0]
    /\ last = [op |-> "Writer", err |-> "", n |-> 0, p |-> << >>, pre |-> Pre,
               calls |-> << >>]
    /\ mp = [op |-> "none"]
    /\ walk = [op |-> "none"]
    /\ ws = [op |-> "none"]
    /\ del = [op |-> "none"]
    /\ loop = [op |-> "Writer", n |-> 0, err |-> "", flushes |-> 0]
    /\ opt = [op |-> "none"]
    /\ rsc = [op |-> "none"]

NextWriteLoop ==
    \/ \E len \in 0..MaxWrite : WriteBegin(len)
    \/ \E ok \in BOOLEAN : WriteTurn(ok)

\* a Write that entered its loop keeps running: the goroutine is scheduled
SpecWriteLoop ==
    InitWriteLoop /\ [][NextWriteLoop]_vars /\ WF_vars(\E ok \in BOOLEAN : WriteTurn(ok))

\* C31: every Write that reached its flush loop returns, with an error or
\* with fewer buffered bytes than the chunk size, whatever chunk size the
\* driver was built with and whatever the store answers
C31_WriteTerminates ==
    (loop.op = "loop") ~> (loop.op = "return" /\ (loop.err # "" \/ Len(buf) < chunkSize))

\* with a positive chunk size every Write returns in this way
WriteTerminatesPositive ==
    (loop.op = "loop" /\ chunkSize > 0)
        ~> (loop.op = "return" /\ (loop.err # "" \/ Len(buf) < chunkSize))

\* ------------------------------------------ the routes to the store key
\* the key under which Writer and NewMultipart create the session of a path
CreatedKey(path) == s3Path(rootDirectory, path)

\* the Prefix of the ListMultipartUploads request GetMultipart ends in:
\* GetMultipart hands s3Path(path) to ListMultipart, which applies s3Path
SearchedPrefix(path) == s3Path(rootDirectory, s3Path(rootDirectory, path))

\* the Key of the ListParts request of Resume on a handle whose key is the
\* stored key of the session
ResumedKey(k) == s3Path(rootDirectory, k)

\* C32: for every root directory and path, GetMultipart searches and Resume
\* lists under the key under which the session of the path was created
C32_RootPrefixOnce ==
    \A path \in Paths :
        /\ SearchedPrefix(path) = CreatedKey(path)
        /\ ResumedKey(CreatedKey(path)) = CreatedKey(path)

\* with the empty root directory the three keys are the same
RootPrefixOnceEmptyRoot ==
    rootDirectory = << >> => C32_RootPrefixOnce

\* --------------------------------------------- the roots of a walk
\* the roots Walk is called with: empty, with and without a leading and a
\* trailing separator
WalkRoots == { << >>, <<"/">>, <<"c">>, <<"/", "c">>, <<"c", "/">>,
               <<"/", "c", "/">> }

\* the state when s.Walk(ctx, from, f) enters doWalk, for every root
InitWalkRoots ==
    /\ rootDirectory \in Roots
    /\ driverChunkSize = 1
    /\ sessions = << >>
    /\ objects = {}
    /\ NoWriter
    /\ mp = [op |-> "none"]
    /\ ws = [op |-> "none"]
    /\ del = [op |-> "none"]
    /\ loop = [op |-> "none"]
    /\ opt = [op |-> "none"]
    /\ rsc = [op |-> "none"]
    /\ walk \in {[op |-> "Walk", from |-> from, names |-> names,
                  keys |-> S3ListObjects(names,
                              s3Path(rootDirectory,
                                     IF HasSuffix(from, <<"/">>) THEN from
                                     ELSE from \o <<"/">>),
                              s3Path(rootDirectory, << >>)),
                  next |-> 1, pages |-> 0, lastPage |-> FALSE,
                  walkInfos |-> << >>, prevDir |-> from, prevSkipDir |-> << >>,
                  skips |-> 0, calls |-> << >>, ret |-> ""] :
                    from \in WalkRoots, names \in SUBSET Names}

\* the walk with a callback that always continues
NextWalkRoots ==
    \/ \E n \in 1..MaxPage, ok \in BOOLEAN : ListPage(n, ok)
    \/ Callback("nil")

SpecWalkRoots == InitWalkRoots /\ [][NextWalkRoots]_vars

\* the directory the walk root names
RootDir == Clean(<<"/">> \o walk.from)

\* the path Walk gives to a listed key
FilePathOf(k) ==
    Replace(k, s3Path(rootDirectory, << >>),
            IF s3Path(rootDirectory, << >>) = << >> THEN <<"/">> ELSE << >>)

\* the directories strictly below the walk root that hold a listed key
DirsBelowRoot ==
    {d \in UNION {Ancestors(FilePathOf(walk.keys[i])) : i \in 1..Len(walk.keys)} :
        IF RootDir = <<"/">> THEN d # <<"/">> ELSE Under(d, RootDir)}

\* the directory entries the walk delivered
DirsEmitted ==
    {walk.calls[i].path : i \in {j \in 1..Len(walk.calls) : walk.calls[j].isDir}}

\* C33: for every walk root, when the walk has returned nil the directory
\* entries it delivered are the directories strictly below the root that
\* hold a listed key: not the root, not one of its ancestors, none left out
C33_DirsBelowRoot ==
    (walk.op = "return" /\ walk.ret = "nil") => DirsEmitted = DirsBelowRoot

\* for a root with a leading separator the directory entries are these
DirsBelowAbsoluteRoot ==
    (walk.op = "return" /\ walk.ret = "nil" /\ HasPrefix(walk.from, <<"/">>))
    => DirsEmitted = DirsBelowRoot

\* ------------------------------------------------- Write without error
\* C34: after a Write that returned without error fewer bytes than the
\* chunk size are buffered, and Write returned the length of its argument
C34_WriteLeavesShortBuffer ==
    (last.op = "Write" /\ ~PreDone /\ last.err = "")
    => /\ Len(buf) < chunkSize
       /\ last.n = Len(last.p)

\* a Write of three bytes onto one buffered byte, chunk size two: two
\* flushes, nothing left in the buffer
C34_Witness ==
    /\ last.op = "Write" /\ ~PreDone /\ last.err = ""
    /\ chunkSize = 2
    /\ Len(last.pre.buf) = 1
    /\ Len(last.p) = 3
    /\ last.n = 3
    /\ Len(parts) = Len(last.pre.parts) + 2
    /\ buf = << >>

\* ------------------------------------------- the parts a writer names
\* the completion requests of the last call
CompletionRequests ==
    {last.calls[i].Parts : i \in {j \in 1..Len(last.calls) :
                                     last.calls[j].call = "CompleteMultipartUpload"}}

\* C35: in every completion request of a writer, after any run of Write and
\* Commit calls that succeeded or failed, every named part but the one with
\* the highest part number has the chunk size of the writer, in the request
\* and in the store
C35_OnlyLastPartShort ==
    \A req \in CompletionRequests :
        \A i \in 1..Len(req) :
            (\E j \in 1..Len(req) : req[j].PartNumber > req[i].PartNumber)
            => /\ Len(req[i].ETag) = chunkSize
               /\ \A p \in sessions[uploadID].Parts :
                     p.PartNumber = req[i].PartNumber => Len(p.Body) = chunkSize

\* a completion request with a short last part after an upload had failed
C35_Witness ==
    /\ ~hist.clean
    /\ \E req \in CompletionRequests :
          /\ Len(req) >= 2
          /\ Len(req[Len(req)].ETag) < chunkSize
          /\ Len(req[1].ETag) = chunkSize

\* ------------------------------------------------ directory markers
\* the walk returned nil and the callback continued on every entry
WalkedThrough ==
    /\ walk.op = "return"
    /\ walk.ret = "nil"
    /\ \A i \in 1..Len(walk.calls) : walk.calls[i].err = "nil"

\* the listed keys that end with the separator
Markers == {walk.keys[i] : i \in {j \in 1..Len(walk.keys) :
                                     HasSuffix(walk.keys[j], <<"/">>)}}

\* how often the directory d was delivered
TimesDir(d) ==
    Cardinality({i \in 1..Len(walk.calls) :
                    walk.calls[i].isDir /\ walk.calls[i].path = d})

\* C36: no file entry is delivered for a listed key that ends with the
\* separator; in a walk that went through, the directory of such a key and
\* the directories above it below the walk root are delivered, each one
\* once, also when keys beneath the marker follow
C36_MarkerIsDirectoryOnly ==
    /\ \A m \in Markers : \A i \in 1..Len(walk.calls) :
          /\ walk.calls[i].path # FilePathOf(m)
          /\ ~walk.calls[i].isDir
             => walk.calls[i].path # SubSeq(FilePathOf(m), 1, Len(FilePathOf(m)) - 1)
    /\ WalkedThrough
       => \A m \in Markers : \A d \in Ancestors(FilePathOf(m)) :
             (IF walk.from = <<"/">> THEN d # <<"/">> ELSE Under(d, walk.from))
             => TimesDir(d) = 1

\* a walk from "/" over the marker c/f/ and the key c/f/g beneath it, on
\* two pages: /c and /c/f were delivered as directories, once each
C36_Witness ==
    /\ WalkedThrough
    /\ walk.from = <<"/">>
    /\ walk.names = { <<"c", "/", "f", "/">>, <<"c", "/", "f", "/", "g">> }
    /\ walk.pages = 2
    /\ [i \in 1..Len(walk.calls) |-> <<walk.calls[i].isDir, walk.calls[i].path>>]
       = << <<TRUE, <<"/", "c">> >>,
            <<TRUE, <<"/", "c", "/", "f">> >>,
            <<FALSE, <<"/", "c", "/", "f", "/", "g">> >> >>

\* ================================================================== List
\* walk holds the List in progress: dir (opath), names, empty (the names
\* stored with no content), items (what the store lists: keys and common
\* prefixes in byte order), next, lastPage, pending (the entries of the page
\* not yet delivered), calls, ret

\* the directories List is called with
ListDirs == { <<"/">>, <<"/", "c">>, <<"/", "c", "/", "f">> }

\* the names that may be stored with no content
MayBeEmpty == { <<"a">>, <<"c", "/", "d">> }

\* the Prefix of the request: opath with a separator at its end
ListPrefix(opath) ==
    s3Path(rootDirectory,
           IF opath # << >> /\ opath # <<"/">> /\ opath[Len(opath)] # "/"
           THEN opath \o <<"/">> ELSE opath)

\* the position of the first separator of s, 0 without
FirstSep(s) ==
    IF \E i \in 1..Len(s) : s[i] = "/"
    THEN CHOOSE i \in 1..Len(s) : s[i] = "/" /\ \A j \in 1..(i - 1) : s[j] # "/"
    ELSE 0

\* what is left of key k after the prefix
AfterPrefix(k, prefix) == SubSeq(k, Len(prefix) + 1, Len(k))

\* ListObjectsV2 with Prefix and Delimiter "/": Contents are the keys with
\* no separator after the prefix
S3Contents(names, prefix) ==
    {k \in {KeyOf(n) : n \in names} :
        HasPrefix(k, prefix) /\ FirstSep(AfterPrefix(k, prefix)) = 0}

\* and CommonPrefixes are the other keys cut after their first separator
\* behind the prefix
S3CommonPrefixes(names, prefix) ==
    {prefix \o SubSeq(AfterPrefix(k, prefix), 1, FirstSep(AfterPrefix(k, prefix))) :
        k \in {x \in {KeyOf(n) : n \in names} :
                  HasPrefix(x, prefix) /\ FirstSep(AfterPrefix(x, prefix)) > 0}}

\* the size the store reports for a key
S3Size(k) ==
    IF HasSuffix(k, <<"/">>) \/ k \in {KeyOf(n) : n \in walk.empty} THEN 0 ELSE 1

\* the entries List makes of a page: its Contents, then its CommonPrefixes
ListEntries(page) ==
    LET s3root == s3Path(rootDirectory, << >>)
        prefix == IF s3root = << >> THEN <<"/">> ELSE << >>
        isKey(u) == u \in S3Contents(walk.names, ListPrefix(walk.dir))
        contents == SelectSeq(page, isKey)
        commons == SelectSeq(page, LAMBDA u : ~isKey(u))
    IN [i \in 1..Len(contents) |->
           [isDir |-> S3Size(contents[i]) = 0,
            path |-> Replace(contents[i], s3root, prefix)]]
       \o [i \in 1..Len(commons) |->
           [isDir |-> TRUE,
            path |-> Replace(SubSeq(commons[i], 1, Len(commons[i]) - 1),
                             s3root, prefix)]]

\* the end of a page: List returns nil after the last one
listPageDone(w) ==
    IF w.pending = << >> /\ w.lastPage
    THEN [w EXCEPT !.op = "return", !.ret = "nil"]
    ELSE w

ListFrame ==
    UNCHANGED <<mp, ws, del, loop, opt, rsc, driverVars, sessions, objects,
                writerVars>>

\* paginator.NextPage: the next n items, or the request fails
ListNextPage(n, ok) ==
    /\ walk.op = "List"
    /\ walk.pending = << >>
    /\ ~walk.lastPage
    /\ IF ~ok THEN walk' = [walk EXCEPT !.op = "return", !.ret = "list error"]
       ELSE LET to == Min(walk.next + n - 1, Len(walk.items))
            IN walk' = listPageDone(
                  [walk EXCEPT !.next = to + 1,
                               !.lastPage = (to = Len(walk.items)),
                               !.pending = ListEntries(SubSeq(walk.items, walk.next, to))])
    /\ ListFrame

\* fun(fileInfo) is called for the next entry and returns goOn
ListCallback(goOn) ==
    /\ walk.op = "List"
    /\ walk.pending # << >>
    /\ LET e == Head(walk.pending)
           called == [walk EXCEPT !.calls = Append(@, [isDir |-> e.isDir,
                                                       path |-> e.path,
                                                       goOn |-> goOn])]
       IN walk' = IF goOn THEN listPageDone([called EXCEPT !.pending = Tail(@)])
                  ELSE [called EXCEPT !.op = "return", !.ret = "nil"]
    /\ ListFrame

InitList ==
    /\ rootDirectory \in Roots
    /\ driverChunkSize = 1
    /\ sessions = << >>
    /\ objects = {}
    /\ NoWriter
    /\ mp = [op |-> "none"]
    /\ ws = [op |-> "none"]
    /\ del = [op |-> "none"]
    /\ loop = [op |-> "none"]
    /\ opt = [op |-> "none"]
    /\ rsc = [op |-> "none"]
    /\ \E dir \in ListDirs, names \in SUBSET Names :
         \E empty \in SUBSET (names \cap MayBeEmpty) :
            walk = [op |-> "List", dir |-> dir, names |-> names, empty |-> empty,
                    items |-> SortKeys(S3Contents(names, ListPrefix(dir))
                                       \cup S3CommonPrefixes(names, ListPrefix(dir))),
                    next |-> 1, lastPage |-> FALSE, pending |-> << >>,
                    calls |-> << >>, ret |-> ""]

NextList ==
    \/ \E n \in 1..MaxPage, ok \in BOOLEAN : ListNextPage(n, ok)
    \/ \E goOn \in BOOLEAN : ListCallback(goOn)

SpecList == InitList /\ [][NextList]_vars

\* the directory List was called with, without a separator at its end
ListedDir == Clean(walk.dir)

\* the path of a stored name
PathOfName(n) == <<"/">> \o n

\* the names directly in the listed directory: below it, no further
\* separator; and the directories directly in it
ChildIn(p, d) ==
    LET pre == IF d = <<"/">> THEN d ELSE d \o <<"/">>
    IN /\ HasPrefix(p, pre)
       /\ Len(p) > Len(pre)
       /\ FirstSep(SubSeq(p, Len(pre) + 1, Len(p))) = 0

ChildObjects == {PathOfName(n) : n \in {x \in walk.names : ChildIn(PathOfName(x), ListedDir)}}

ChildDirs ==
    {d \in UNION {Ancestors(PathOfName(n)) : n \in walk.names} : ChildIn(d, ListedDir)}

\* C37: no callback follows one that returned false, and List returns nil
\* then; a List whose callback always returned true has delivered every
\* object directly in dir as a non-directory entry, every directory
\* directly in dir as a directory entry with no separator at the end of its
\* path, and nothing else
C37_ListImmediateChildren ==
    walk.op \in {"List", "return"} /\ walk.ret # "list error"
    => /\ \A i \in 1..Len(walk.calls) :
             ~walk.calls[i].goOn
             => i = Len(walk.calls) /\ walk.op = "return" /\ walk.ret = "nil"
       /\ (walk.op = "return" /\ \A i \in 1..Len(walk.calls) : walk.calls[i].goOn)
          => /\ {walk.calls[i].path : i \in {j \in 1..Len(walk.calls) :
                                                ~walk.calls[j].isDir}} = ChildObjects
             /\ {walk.calls[i].path : i \in {j \in 1..Len(walk.calls) :
                                                walk.calls[j].isDir}} = ChildDirs

\* the same for a store in which every object has content and no key ends
\* with the separator
ListImmediateChildrenNonEmpty ==
    (walk.empty = {} /\ \A n \in walk.names : ~HasSuffix(n, <<"/">>))
    => C37_ListImmediateChildren

\* ============================================================ WithSHA256
\* the alphabet of base64.URLEncoding, the value of a character being its
\* position minus one
URLAlphabet ==
    << "A", "B", "C", "D", "E", "F", "G", "H", "I", "J", "K", "L", "M", "N", "O", "P",
       "Q", "R", "S", "T", "U", "V", "W", "X", "Y", "Z", "a", "b", "c", "d", "e", "f",
       "g", "h", "i", "j", "k", "l", "m", "n", "o", "p", "q", "r", "s", "t", "u", "v",
       "w", "x", "y", "z", "0", "1", "2", "3", "4", "5", "6", "7", "8", "9", "-", "_" >>

\* the digits of encoding/hex in the order of their values
HexLower == << "0", "1", "2", "3", "4", "5", "6", "7", "8", "9", "a", "b", "c", "d", "e", "f" >>
HexUpper == << "0", "1", "2", "3", "4", "5", "6", "7", "8", "9", "A", "B", "C", "D", "E", "F" >>

\* the position of c in the sequence s, 0 when it is not there
PosIn(c, s) ==
    IF \E i \in 1..Len(s) : s[i] = c THEN CHOOSE i \in 1..Len(s) : s[i] = c ELSE 0

HexVal(c) == IF PosIn(c, HexLower) > 0 THEN PosIn(c, HexLower) - 1
             ELSE PosIn(c, HexUpper) - 1

\* hex.DecodeString succeeds: an even number of hex digits
IsHex(in) == Len(in) % 2 = 0 /\ \A i \in 1..Len(in) : HexVal(in[i]) >= 0

\* hex.DecodeString: one byte per pair of digits
HexDecode(in) ==
    [i \in 1..(Len(in) \div 2) |-> 16 * HexVal(in[2 * i - 1]) + HexVal(in[2 * i])]

\* how many "=" end the input
RECURSIVE Padding(_)
Padding(in) ==
    IF in # << >> /\ in[Len(in)] = "=" THEN 1 + Padding(SubSeq(in, 1, Len(in) - 1))
    ELSE 0

\* base64.URLEncoding.DecodeString succeeds: quanta of four characters of
\* the alphabet, the last one ending with at most two "="
IsURLBase64(in) ==
    /\ Len(in) % 4 = 0
    /\ Padding(in) <= 2
    /\ \A i \in 1..(Len(in) - Padding(in)) : PosIn(in[i], URLAlphabet) > 0

\* base64.URLEncoding.EncodeToString
RECURSIVE URLEncode(_)
URLEncode(data) ==
    IF data = << >> THEN << >>
    ELSE LET n == Min(3, Len(data))
             b1 == data[1]
             b2 == IF n >= 2 THEN data[2] ELSE 0
             b3 == IF n >= 3 THEN data[3] ELSE 0
             v == (b1 * 256 + b2) * 256 + b3
             c(k) == URLAlphabet[((v \div (64 ^ (3 - k))) % 64) + 1]
         IN <<c(0), c(1), IF n >= 2 THEN c(2) ELSE "=", IF n >= 3 THEN c(3) ELSE "=">>
            \o URLEncode(SubSeq(data, n + 1, Len(data)))

\* WithSHA256(in) applied to an empty writerOption: the value of o.SHA256
withSHA256(in) ==
    IF IsURLBase64(in) THEN in
    ELSE IF IsHex(in) THEN URLEncode(HexDecode(in))
    ELSE << >>

\* the characters of the inputs: hex digits, a character of the base64
\* alphabet that is no hex digit, the padding and a character of neither
InputChars == {"0", "a", "F", "Z", "=", "!"}
Inputs == UNION {[1..n -> InputChars] : n \in 0..MaxInput}

OptFrame ==
    UNCHANGED <<mp, walk, ws, del, loop, rsc, driverVars, sessions, objects,
                writerVars>>

\* the option function returned by WithSHA256(opt.input) is applied
WithSHA256 ==
    /\ opt.op = "input"
    /\ opt' = [opt EXCEPT !.op = "WithSHA256", !.SHA256 = withSHA256(opt.input)]
    /\ OptFrame

\* Commit builds the completion request: ChecksumSHA256 is set when
\* w.opt.SHA256 is not empty
CommitChecksum ==
    /\ opt.op = "WithSHA256"
    /\ opt' = [opt EXCEPT !.op = "Commit",
                          !.checksum = IF opt.SHA256 # << >>
                                       THEN [set |-> TRUE, value |-> opt.SHA256]
                                       ELSE [set |-> FALSE, value |-> << >>]]
    /\ OptFrame

InitOpt ==
    /\ rootDirectory \in Roots
    /\ driverChunkSize = 1
    /\ sessions = << >>
    /\ objects = {}
    /\ NoWriter
    /\ mp = [op |-> "none"]
    /\ walk = [op |-> "none"]
    /\ ws = [op |-> "none"]
    /\ del = [op |-> "none"]
    /\ loop = [op |-> "none"]
    /\ rsc = [op |-> "none"]
    /\ opt \in {[op |-> "input", input |-> in, SHA256 |-> << >>,
                 checksum |-> [set |-> FALSE, value |-> << >>]] : in \in Inputs}

NextOpt == WithSHA256 \/ CommitChecksum

SpecOpt == InitOpt /\ [][NextOpt]_vars

\* C38: WithSHA256 keeps an input that is the hex encoding of bytes as the
\* URL-safe base64 encoding of these bytes, keeps an input that is URL-safe
\* base64 as it is, and leaves the option unset for every other input;
\* Commit sends a set value as the checksum of the object
C38_WithSHA256 ==
    /\ opt.op \in {"WithSHA256", "Commit"}
       => /\ IsHex(opt.input) => opt.SHA256 = URLEncode(HexDecode(opt.input))
          /\ (IsURLBase64(opt.input) /\ ~IsHex(opt.input)) => opt.SHA256 = opt.input
          /\ (~IsURLBase64(opt.input) /\ ~IsHex(opt.input)) => opt.SHA256 = << >>
    /\ opt.op = "Commit"
       => opt.checksum = [set |-> opt.SHA256 # << >>, value |-> opt.SHA256]

\* for the inputs that are not hex and base64 at once WithSHA256 and Commit
\* do this
WithSHA256Unambiguous ==
    ~(IsHex(opt.input) /\ IsURLBase64(opt.input) /\ opt.input # << >>)
    => C38_WithSHA256

\* ============================================================ readSeekCloser
\* the whence values of io: SeekStart, SeekCurrent, SeekEnd, and one that is
\* none of them
SeekStart == 0
SeekCurrent == 1
SeekEnd == 2
Whences == 0..3

\* the bytes of the object from position p: n of them (a byte is its position)
ObjectBytes(p, n) == [i \in 1..n |-> p + i]

RscFrame ==
    UNCHANGED <<mp, walk, ws, del, loop, opt, driverVars, sessions, objects,
                writerVars>>

\* what a call keeps of the state before it
RscPrev == [offset |-> rsc.offset, current |-> rsc.current, pos |-> rsc.pos,
            at |-> rsc.at]

\* Read(p) with len(p) = len. okGet: getReader succeeds; the reader's Read
\* delivers n bytes with the error err: "" for nil, "EOF" at the end of the
\* object, "err" for a failure
RscRead(len, okGet, n, err) ==
    /\ rsc.op # "none"
    /\ IF rsc.offset >= rsc.size
       THEN /\ rsc' = [rsc EXCEPT !.op = "Read", !.prev = RscPrev,
                           !.ret = [n |-> 0, err |-> "EOF", bytes |-> << >>,
                                    opened |-> FALSE]]
       ELSE IF rsc.current = "nil" /\ ~okGet
       THEN /\ rsc' = [rsc EXCEPT !.op = "Read", !.prev = RscPrev,
                           !.ret = [n |-> 0, err |-> "err", bytes |-> << >>,
                                    opened |-> FALSE]]
       ELSE LET opening == rsc.current = "nil"
                from == IF opening THEN rsc.offset ELSE rsc.pos
                open1 == IF opening THEN rsc.open + 1 ELSE rsc.open
            IN /\ n <= Min(len, rsc.size - from)
               /\ (err = "EOF") => (from + n = rsc.size)
               /\ rsc' = [rsc EXCEPT
                     !.op = "Read", !.prev = RscPrev,
                     !.offset = @ + n,
                     !.at = @ + n,
                     !.current = IF err = "EOF" THEN "nil" ELSE "reader",
                     !.pos = IF err = "EOF" THEN 0 ELSE from + n,
                     !.open = IF err = "EOF" THEN open1 - 1 ELSE open1,
                     !.ret = [n |-> n,
                              err |-> IF err = "EOF" /\ rsc.offset + n < rsc.size
                                      THEN "" ELSE err,
                              bytes |-> ObjectBytes(from, n),
                              opened |-> opening]]
    /\ RscFrame

\* the position a Seek asks for, counted from base
SeekTarget(whence, off, cur, end) ==
    IF whence = SeekStart THEN off
    ELSE IF whence = SeekCurrent THEN cur + off
    ELSE end + off

\* Seek(off, whence), the reader staying open at its old position
RscSeek_KeepsReader(off, whence) ==
    /\ rsc.op # "none"
    /\ LET newOffset == SeekTarget(whence, off, rsc.offset, rsc.size)
           want == SeekTarget(whence, off, rsc.at, rsc.size)
       IN IF whence \notin {SeekStart, SeekCurrent, SeekEnd}
          THEN rsc' = [rsc EXCEPT !.op = "Seek", !.prev = RscPrev,
                          !.ret = [n |-> 0, err |-> "invalid whence",
                                   bytes |-> << >>, opened |-> FALSE]]
          ELSE IF newOffset < 0
          THEN rsc' = [rsc EXCEPT !.op = "Seek", !.prev = RscPrev,
                          !.ret = [n |-> 0, err |-> "negative position",
                                   bytes |-> << >>, opened |-> FALSE]]
          ELSE LET clamped == Min(newOffset, rsc.size)
               IN rsc' = [rsc EXCEPT
                     !.op = "Seek", !.prev = RscPrev,
                     !.offset = clamped,
                     !.at = Min(want, rsc.size),
                     !.ret = [n |-> clamped, err |-> "", bytes |-> << >>,
                              opened |-> FALSE]]
    /\ RscFrame

\* Seek(off, whence)
RscSeek(off, whence) ==
    /\ rsc.op # "none"
    /\ LET newOffset == SeekTarget(whence, off, rsc.offset, rsc.size)
           want == SeekTarget(whence, off, rsc.at, rsc.size)
       IN IF whence \notin {SeekStart, SeekCurrent, SeekEnd}
          THEN rsc' = [rsc EXCEPT !.op = "Seek", !.prev = RscPrev,
                          !.ret = [n |-> 0, err |-> "invalid whence",
                                   bytes |-> << >>, opened |-> FALSE]]
          ELSE IF newOffset < 0
          THEN rsc' = [rsc EXCEPT !.op = "Seek", !.prev = RscPrev,
                          !.ret = [n |-> 0, err |-> "negative position",
                                   bytes |-> << >>, opened |-> FALSE]]
          ELSE LET clamped == Min(newOffset, rsc.size)
                   closing == rsc.current # "nil" /\ clamped # rsc.offset
               IN rsc' = [rsc EXCEPT
                     !.op = "Seek", !.prev = RscPrev,
                     !.offset = clamped,
                     !.at = Min(want, rsc.size),
                     !.current = IF closing THEN "nil" ELSE @,
                     !.pos = IF closing THEN 0 ELSE @,
                     !.open = IF closing THEN @ - 1 ELSE @,
                     !.ret = [n |-> clamped, err |-> "", bytes |-> << >>,
                              opened |-> FALSE]]
    /\ RscFrame

\* Close(); ok: the reader's Close returns nil
RscClose(ok) ==
    /\ rsc.op # "none"
    /\ rsc' = [rsc EXCEPT
          !.op = "Close", !.prev = RscPrev,
          !.current = "nil",
          !.pos = 0,
          !.open = IF rsc.current # "nil" THEN @ - 1 ELSE @,
          !.ret = [n |-> 0,
                   err |-> IF rsc.current # "nil" /\ ~ok THEN "err" ELSE "",
                   bytes |-> << >>, opened |-> FALSE]]
    /\ RscFrame

\* NewReadSeekCloser(getReadCloser, size)
InitRsc ==
    /\ rootDirectory \in Roots
    /\ driverChunkSize = 1
    /\ sessions = << >>
    /\ objects = {}
    /\ NoWriter
    /\ mp = [op |-> "none"]
    /\ walk = [op |-> "none"]
    /\ ws = [op |-> "none"]
    /\ del = [op |-> "none"]
    /\ loop = [op |-> "none"]
    /\ opt = [op |-> "none"]
    /\ rsc \in {[op |-> "New", size |-> sz, offset |-> 0, current |-> "nil",
                 pos |-> 0, open |-> 0, at |-> 0,
                 prev |-> [offset |-> 0, current |-> "nil", pos |-> 0, at |-> 0],
                 ret |-> [n |-> 0, err |-> "", bytes |-> << >>,
                          opened |-> FALSE]] : sz \in 0..MaxObject}

NextRsc ==
    \/ \E len \in 0..MaxRead, okGet \in BOOLEAN, n \in 0..MaxRead,
          err \in {"", "EOF", "err"} : RscRead(len, okGet, n, err)
    \/ \E off \in (0 - MaxObject - 1)..(MaxObject + 1), whence \in Whences :
          RscSeek(off, whence)
    \/ \E ok \in BOOLEAN : RscClose(ok)

SpecRsc == InitRsc /\ [][NextRsc]_vars

\* C39: for every sequence of Seek, Read and Close on a readSeekCloser the
\* offset stays between 0 and the size; a Read returns the object's bytes
\* from the position the Seeks and Reads before it lead to; a Read at or
\* after the end returns EOF and opens no reader; a failed Seek changes
\* neither the offset nor the reader; at most one reader is open, and none
\* after Close
C39_ReadSeekCloser ==
    rsc.op # "none" =>
    /\ 0 <= rsc.offset /\ rsc.offset <= rsc.size
    /\ rsc.offset = rsc.at
    /\ rsc.op = "Read" => rsc.ret.bytes = ObjectBytes(rsc.prev.at, rsc.ret.n)
    /\ (rsc.op = "Read" /\ rsc.prev.offset >= rsc.size)
       => /\ rsc.ret.err = "EOF" /\ rsc.ret.n = 0 /\ ~rsc.ret.opened
          /\ rsc.current = rsc.prev.current
    /\ (rsc.op = "Seek" /\ rsc.ret.err # "")
       => /\ rsc.offset = rsc.prev.offset
          /\ rsc.current = rsc.prev.current
          /\ rsc.pos = rsc.prev.pos
    /\ rsc.open <= 1
    /\ rsc.open = (IF rsc.current = "nil" THEN 0 ELSE 1)
    /\ rsc.op = "Close" => rsc.open = 0

\* a Read delivers bytes from the middle of the object through a reader it
\* opened there
C39_Witness ==
    /\ rsc.op = "Read"
    /\ rsc.ret.opened
    /\ rsc.ret.n > 0
    /\ rsc.prev.at > 0
    /\ rsc.prev.at + rsc.ret.n < rsc.size

====
